---- MODULE Spec2Model ----
(***************************************************************************)
(* Flight Record Store of the operator station (package data_analysis):   *)
(* the canonical SQLite store, the importers, duplicate / trim, delete    *)
(* and the marker operations, as a state machine over the tables.         *)
(*                                                                         *)
(* Time values.  Request offsets and marker times are float64 seconds in  *)
(* the program.  They are modelled as integers counting "ticks" of half a *)
(* millisecond (Resolution ticks per second), so that offsets which are   *)
(* not a whole number of milliseconds exist and the conversion            *)
(* int64(seconds*1000) really truncates.  Telemetry timestamps are        *)
(* integer milliseconds, as in the schema.                                *)
(***************************************************************************)
EXTENDS Integers, Sequences, FiniteSets, TLC

VARIABLES flight, aircraft, position, attitude, engine, markers, markerSeq,
          last, served, schema, running, tempDir, calls, locks, gps, clock

vars == <<flight, aircraft, position, attitude, engine, markers, markerSeq,
          last, served, schema, running, tempDir, calls, locks, gps, clock>>

(***************************************************************************)
(* Bounds of the model                                                     *)
(***************************************************************************)
\* Flights the store may hold, the largest marker id handed out, the last
\* statement of a transaction the environment may fail, and the number of
\* requests served.
MaxFlights == 2
MaxMarkerSeq == 2
MaxFailPoint == 3
MaxRequests == 3

(***************************************************************************)
(* Program constants                                                       *)
(***************************************************************************)
MsPerSecond == 1000
MinTrimSeconds == 1
\* The rows at the top of a CSV file that are never its header: the
\* separator row and the comment row.
SkipRows == 2
\* 1690000000000 in the source; three digits shorter here so that every
\* timestamp fits the model checker's 32-bit integers.  Only its role as the
\* common offset of all CSV timestamps matters.
baseTimestamp == 1690000000

Resolution == 2 * MsPerSecond

(***************************************************************************)
(* Arithmetic helpers                                                      *)
(***************************************************************************)
Max(S) == CHOOSE x \in S : \A y \in S : y <= x
Min(S) == CHOOSE x \in S : \A y \in S : x <= y

\* Go's int64(f): conversion of a float to an integer truncates toward zero.
\* Int64OfMillis(x) is int64(seconds*1000) for seconds = x ticks.
Int64OfMillis(x) ==
    LET n == x * MsPerSecond
    IN  IF n >= 0 THEN n \div Resolution ELSE -((-n) \div Resolution)

\* The rows of S as a sequence in ascending order of key[r] (ORDER BY key).
RECURSIVE OrderBy(_, _)
OrderBy(S, key) ==
    IF S = {} THEN <<>>
    ELSE LET r == CHOOSE x \in S : \A y \in S : key[x] <= key[y]
         IN  <<r>> \o OrderBy(S \ {r}, key)

ByTimestamp(S) == OrderBy(S, [r \in S |-> r.timestamp])
ById(S) == OrderBy(S, [r \in S |-> r.id])

(***************************************************************************)
(* The canonical store                                                     *)
(***************************************************************************)
Store ==
    [flight |-> flight, aircraft |-> aircraft, position |-> position,
     attitude |-> attitude, engine |-> engine, markers |-> markers,
     markerSeq |-> markerSeq]

Tables == {"flight", "aircraft", "position", "attitude", "engine", "markers"}
Telemetry == {"position", "attitude", "engine"}

\* The rows of one aircraft in a telemetry table.
Series(db, table, aircraftID) == {r \in db[table] : r.aircraft_id = aircraftID}

EmptyStore ==
    [flight |-> {}, aircraft |-> {}, position |-> {}, attitude |-> {},
     engine |-> {}, markers |-> {}, markerSeq |-> 0]

\* id integer primary key: SQLite assigns the largest rowid in the table plus
\* one, so the id of a deleted last row is handed out again.
NextRowId(rows) == IF rows = {} THEN 1 ELSE Max({r.id : r \in rows}) + 1

\* markers.id is INTEGER PRIMARY KEY AUTOINCREMENT: ids are never reused;
\* sqlite_sequence (markerSeq) remembers the largest id ever committed.
NextMarkerId(db) == Max({db.markerSeq} \cup {m.id : m \in db.markers}) + 1

\* Constraint violations of the schema.  Foreign keys are declared but not
\* enforced: the connection is opened without the foreign_keys pragma.
Violates(db, table, row) ==
    CASE table = "aircraft" ->
            \E a \in db.aircraft : a.flight_id = row.flight_id /\ a.seq_nr = row.seq_nr
      [] table \in {"position", "attitude", "engine"} ->
            \E r \in db[table] : r.aircraft_id = row.aircraft_id /\ r.timestamp = row.timestamp
      [] OTHER -> FALSE

Insert(db, table, row) ==
    IF table = "markers"
    THEN [db EXCEPT !.markers = @ \cup {row}, !.markerSeq = row.id]
    ELSE [db EXCEPT ![table] = @ \cup {row}]

(***************************************************************************)
(* Transactions.  A transaction t works on its own view t.db of the store;*)
(* t.n counts the statements executed so far and t.err is set by the      *)
(* first failing statement, after which the caller returns at once (every *)
(* later statement is skipped).  A failure f = [at, commit] is what the    *)
(* environment does to the transaction (I/O error, full disk, locked      *)
(* database): f.at names the statement that fails (0: none), f.commit     *)
(* says whether the commit fails.                                          *)
(***************************************************************************)
NoFailure == [at |-> 0, commit |-> FALSE]

Failures ==
    {[at |-> k, commit |-> FALSE] : k \in 0..MaxFailPoint}
        \cup {[at |-> 0, commit |-> TRUE]}

\* The failures that can strike a request whose undisturbed run is r: none
\* unless it reaches the store, and none after its last statement.
FailuresOf(r) ==
    IF r.tx \/ r.wrote THEN {f \in Failures : f.at <= r.n + 1} ELSE {NoFailure}

Begin(db) == [db |-> db, n |-> 0, err |-> FALSE, injected |-> FALSE]

\* One INSERT of a transaction.  t.injected tells an error of the
\* environment from a constraint violation.
Exec(t, table, row, failAt) ==
    IF t.err THEN t
    ELSE IF t.n + 1 = failAt THEN [t EXCEPT !.err = TRUE, !.injected = TRUE]
    ELSE IF Violates(t.db, table, row) THEN [t EXCEPT !.err = TRUE]
    ELSE [t EXCEPT !.db = Insert(t.db, table, row), !.n = t.n + 1]

\* tx.Commit(): the last step that can fail.
Commit(t, commitFails) ==
    IF t.err THEN t
    ELSE IF commitFails THEN [t EXCEPT !.err = TRUE, !.injected = TRUE] ELSE t

\* Without the deferred tx.Rollback() the statements before the error stay.
RollbackMissing(committed, t) == t.db

\* defer tx.Rollback(): the store a failed transaction leaves behind.
Rollback(committed, t) == committed

\* The view of the transaction handed back whether or not it failed.
OutcomeKeepsWrites(committed, t) == t.db

\* What the caller of a transactional operation finds in the store.
Outcome(committed, t) == IF t.err THEN Rollback(committed, t) ELSE t.db

\* INSERT of a sequence of telemetry rows through one prepared statement.
RECURSIVE InsertRows(_, _, _, _, _)
InsertRows(t, table, rows, newAircraftID, failAt) ==
    IF rows = <<>> THEN t
    ELSE InsertRows(Exec(t, table,
                         [Head(rows) EXCEPT !.aircraft_id = newAircraftID], failAt),
                    table, Tail(rows), newAircraftID, failAt)

\* Result of an operation: the store it leaves, the kind of its result,
\* whether it began a transaction, the number of statements the
\* transaction had executed when it ended and whether it had written rows,
\* whether the environment made it fail, the ids it returns, and what its
\* error message names.
Result(db, res, t, ids) ==
    [db |-> db, res |-> res, tx |-> TRUE, wrote |-> t.n > 0, n |-> t.n,
     injected |-> t.injected, ids |-> ids, detail |-> ""]

Rejected(db, res) ==
    [db |-> db, res |-> res, tx |-> FALSE, wrote |-> FALSE, n |-> 0,
     injected |-> FALSE, ids |-> <<>>, detail |-> ""]

\* The return of a transactional operation after its commit: the error of
\* the first failing statement or of the commit, or the new ids.
Return(db, t, ids) ==
    IF t.err THEN Result(Outcome(db, t), "error", t, <<>>)
    ELSE Result(Outcome(db, t), "ok", t, ids)

(***************************************************************************)
(* Foreign databases offered for import.  A source has the tables named   *)
(* in .tables; its rows carry the source's own ids.                       *)
(***************************************************************************)
RequiredTables == {"flight", "aircraft", "position", "attitude", "engine"}

LogbookFlights ==
    {[id |-> 10, title |-> "A", start |-> 1, data |-> "d10"],
     [id |-> 20, title |-> "", start |-> 2, data |-> "d20"]}

LogbookAircraft ==
    {[id |-> 7, flight_id |-> 10, seq_nr |-> 1, type |-> "C172", tail_number |-> ""],
     [id |-> 8, flight_id |-> 10, seq_nr |-> 2, type |-> "C172", tail_number |-> ""],
     [id |-> 9, flight_id |-> 20, seq_nr |-> 1, type |-> "A320", tail_number |-> "D-AIAB"]}

LogbookPosition ==
    {[aircraft_id |-> 7, timestamp |-> 5000, data |-> "p1"],
     [aircraft_id |-> 7, timestamp |-> 5500, data |-> "p2"],
     [aircraft_id |-> 7, timestamp |-> 6600, data |-> "p3"],
     [aircraft_id |-> 8, timestamp |-> 5000, data |-> "p4"],
     [aircraft_id |-> 9, timestamp |-> 9000, data |-> "p5"]}

LogbookAttitude ==
    {[aircraft_id |-> 7, timestamp |-> 5100, data |-> "a1"],
     [aircraft_id |-> 7, timestamp |-> 6100, data |-> "a2"],
     [aircraft_id |-> 8, timestamp |-> 5000, data |-> "a3"],
     [aircraft_id |-> 9, timestamp |-> 9000, data |-> "a4"]}

LogbookEngine ==
    {[aircraft_id |-> 7, timestamp |-> 5000, data |-> "e1"],
     [aircraft_id |-> 8, timestamp |-> 5000, data |-> "e2"],
     [aircraft_id |-> 9, timestamp |-> 9000, data |-> "e3"]}

Logbook ==
    [tables |-> RequiredTables, flight |-> LogbookFlights,
     aircraft |-> LogbookAircraft, position |-> LogbookPosition,
     attitude |-> LogbookAttitude, engine |-> LogbookEngine]

\* The same file without its engine table.
LogbookNoEngine ==
    [Logbook EXCEPT !.tables = RequiredTables \ {"engine"}, !.engine = {}]

\* A file with flights and telemetry and neither aircraft nor engine table.
LogbookNoAircraft ==
    [Logbook EXCEPT !.tables = RequiredTables \ {"aircraft", "engine"},
                    !.aircraft = {}, !.engine = {}]

\* An upload that is no SQLite database: no query on it finds a table.
NotADatabase ==
    [tables |-> {}, flight |-> {}, aircraft |-> {}, position |-> {},
     attitude |-> {}, engine |-> {}]

SourceDBs == {Logbook, LogbookNoEngine, LogbookNoAircraft, NotADatabase}

(***************************************************************************)
(* Importer, foreign-database variant                                      *)
(***************************************************************************)
\* The tables in the order in which verifyDatabaseSchema looks for them.
requiredTables == <<"flight", "aircraft", "position", "attitude", "engine">>

\* The table named by the error of verifyDatabaseSchema, "" for no error:
\* the first of requiredTables that the source does not have.
RECURSIVE verifyTables(_, _)
verifyTables(tables, sourceDB) ==
    IF tables = <<>> THEN ""
    ELSE IF Head(tables) \notin sourceDB.tables THEN Head(tables)
    ELSE verifyTables(Tail(tables), sourceDB)

\* The loop run from the last required table to the first.
verifyDatabaseSchemaFromLast(sourceDB) ==
    verifyTables([i \in 1..Len(requiredTables) |->
                     requiredTables[Len(requiredTables) + 1 - i]], sourceDB)

verifyDatabaseSchema(sourceDB) == verifyTables(requiredTables, sourceDB)

\* The row loop of importFlights: one INSERT per source flight, collecting
\* (SourceID, ID) of every flight inserted.
RECURSIVE importFlightsLoop(_, _, _, _)
importFlightsLoop(t, rows, flights, f) ==
    IF rows = <<>> \/ t.err THEN [t |-> t, flights |-> flights]
    ELSE LET src == Head(rows)
             newID == NextRowId(t.db.flight)
             t2 == Exec(t, "flight",
                        [id |-> newID, title |-> src.title,
                         start |-> src.start, data |-> src.data], f.at)
         IN  importFlightsLoop(t2, Tail(rows),
                 IF t2.err THEN flights
                 ELSE Append(flights, [ID |-> newID, SourceID |-> src.id]), f)

\* SELECT ... FROM flight ORDER BY start_zulu_sim_time DESC
importFlights(sourceDB, t, f) ==
    importFlightsLoop(t,
        OrderBy(sourceDB.flight, [r \in sourceDB.flight |-> -r.start]), <<>>, f)

importPositionData(sourceDB, t, sourceAircraftID, newAircraftID, f) ==
    InsertRows(t, "position",
        ByTimestamp({r \in sourceDB.position : r.aircraft_id = sourceAircraftID}),
        newAircraftID, f.at)

importAttitudeData(sourceDB, t, sourceAircraftID, newAircraftID, f) ==
    InsertRows(t, "attitude",
        ByTimestamp({r \in sourceDB.attitude : r.aircraft_id = sourceAircraftID}),
        newAircraftID, f.at)

importEngineData(sourceDB, t, sourceAircraftID, newAircraftID, f) ==
    InsertRows(t, "engine",
        ByTimestamp({r \in sourceDB.engine : r.aircraft_id = sourceAircraftID}),
        newAircraftID, f.at)

\* The row loop of importAircraftForFlight.
RECURSIVE importAircraftLoop(_, _, _, _, _)
importAircraftLoop(sourceDB, t, rows, newFlightID, f) ==
    IF rows = <<>> \/ t.err THEN t
    ELSE LET src == Head(rows)
             newAircraftID == NextRowId(t.db.aircraft)
             t1 == Exec(t, "aircraft",
                        [src EXCEPT !.id = newAircraftID, !.flight_id = newFlightID],
                        f.at)
             t2 == importPositionData(sourceDB, t1, src.id, newAircraftID, f)
             t3 == importAttitudeData(sourceDB, t2, src.id, newAircraftID, f)
             t4 == importEngineData(sourceDB, t3, src.id, newAircraftID, f)
         IN  importAircraftLoop(sourceDB, t4, Tail(rows), newFlightID, f)

\* The aircraft inserted under the flight id of the source.
importAircraftForFlightUnmapped(sourceDB, t, sourceFlightID, newFlightID, f) ==
    importAircraftLoop(sourceDB, t,
        ById({a \in sourceDB.aircraft : a.flight_id = sourceFlightID}),
        sourceFlightID, f)

importAircraftForFlight(sourceDB, t, sourceFlightID, newFlightID, f) ==
    importAircraftLoop(sourceDB, t,
        ById({a \in sourceDB.aircraft : a.flight_id = sourceFlightID}),
        newFlightID, f)

\* for _, flight := range flights { importAircraftForFlight(...) }
RECURSIVE importAllAircraft(_, _, _, _)
importAllAircraft(sourceDB, t, flights, f) ==
    IF flights = <<>> \/ t.err THEN t
    ELSE importAllAircraft(sourceDB,
             importAircraftForFlight(sourceDB, t, Head(flights).SourceID,
                                     Head(flights).ID, f),
             Tail(flights), f)

\* The part of ImportFlightsFromDatabase after importFlights returned r.
importAircraftAndCommit(db, sourceDB, r, f) ==
    Return(db, Commit(importAllAircraft(sourceDB, r.t, r.flights, f), f.commit),
           r.flights)

ImportFlightsFromDatabase(db, sourceDB, f) ==
    IF verifyDatabaseSchema(sourceDB) # ""
    THEN [Rejected(db, "invalid_source") EXCEPT
             !.detail = verifyDatabaseSchema(sourceDB)]
    ELSE importAircraftAndCommit(db, sourceDB,
                                 importFlights(sourceDB, Begin(db), f), f)

(***************************************************************************)
(* CSV files.  A file is a sequence of rows, a row a sequence of fields.  *)
(* Column names are sequences of characters, so that the substring test   *)
(* and the folding of case are the operations of the program.             *)
(***************************************************************************)
\* strings.ToLower on the letters that occur in the column names and in
\* the names of uploaded files.
LowerOf ==
    [c \in {"A", "C", "E", "I", "L", "M", "S", "T", "V"} |->
        CASE c = "A" -> "a"
          [] c = "C" -> "c"
          [] c = "V" -> "v"
          [] c = "E" -> "e"
          [] c = "I" -> "i"
          [] c = "L" -> "l"
          [] c = "M" -> "m"
          [] c = "S" -> "s"
          [] c = "T" -> "t"]

ToLower(s) ==
    [i \in 1..Len(s) |-> IF s[i] \in DOMAIN LowerOf THEN LowerOf[s[i]] ELSE s[i]]

\* strings.Contains(s, substr)
Contains(s, substr) ==
    \E i \in 0..(Len(s) - Len(substr)) : SubSeq(s, i + 1, i + Len(substr)) = substr

\* "Time", "Altitude", "Latitude", "Longitude"
expectedHeaders ==
    {<<"T", "i", "m", "e">>,
     <<"A", "l", "t", "i", "t", "u", "d", "e">>,
     <<"L", "a", "t", "i", "t", "u", "d", "e">>,
     <<"L", "o", "n", "g", "i", "t", "u", "d", "e">>}

\* Column names of uploaded files: Time, TIME, Altitude, IndicatedAltitude,
\* Latitude/Longitude, Longitude, Speed, Lat.
ColTime == <<"T", "i", "m", "e">>
ColTIME == <<"T", "I", "M", "E">>
ColAltitude == <<"A", "l", "t", "i", "t", "u", "d", "e">>
ColIndicatedAltitude == <<"I", "n", "d", "i", "c", "a", "t", "e", "d", "A", "l", "t", "i", "t", "u", "d", "e">>
ColLatitudeLongitude == <<"L", "a", "t", "i", "t", "u", "d", "e", "/", "L", "o", "n", "g", "i", "t", "u", "d", "e">>
ColLongitude == <<"L", "o", "n", "g", "i", "t", "u", "d", "e">>
ColSpeed == <<"S", "p", "e", "e", "d">>
ColLat == <<"L", "a", "t">>

ColumnNames ==
    {ColTime, ColTIME, ColAltitude, ColIndicatedAltitude,
     ColLatitudeLongitude, ColLongitude, ColSpeed, ColLat}

\* The column holds one of the expected names: the inner loop of
\* containsFlightDataHeaders, left at the first name found.
matchesExpected(header) ==
    \E expected \in expectedHeaders :
        Contains(ToLower(header), ToLower(expected))

\* foundCount is the number of columns that matched.
containsFlightDataHeaders(record) ==
    Cardinality({i \in 1..Len(record) : matchesExpected(record[i])}) >= 3

(***************************************************************************)
(* Importer, CSV variant.  csvData is the parsed file: the title, the     *)
(* aircraft type and the accepted records with their TimestampSeconds.    *)
(***************************************************************************)
CSVFiles ==
    {[FlightTitle |-> "A", AircraftType |-> "Unknown",
      Records |-> <<[TimestampSeconds |-> 0, data |-> "r1"],
                    [TimestampSeconds |-> 1000, data |-> "r2"],
                    [TimestampSeconds |-> 2001, data |-> "r3"]>>],
     [FlightTitle |-> "C", AircraftType |-> "Unknown",
      Records |-> <<[TimestampSeconds |-> 0, data |-> "r1"],
                    [TimestampSeconds |-> 0, data |-> "r2"]>>],
     [FlightTitle |-> "C", AircraftType |-> "Unknown", Records |-> <<>>]}

createFlightFromCSV(t, csvData, f) ==
    LET flightID == NextRowId(t.db.flight)
    IN  [t |-> Exec(t, "flight",
                    [id |-> flightID, title |-> csvData.FlightTitle,
                     start |-> 0, data |-> "CSV Import"], f.at),
         id |-> flightID]

createAircraftFromCSV(t, flightID, csvData, f) ==
    LET aircraftID == NextRowId(t.db.aircraft)
    IN  [t |-> Exec(t, "aircraft",
                    [id |-> aircraftID, flight_id |-> flightID, seq_nr |-> 1,
                     type |-> csvData.AircraftType, tail_number |-> "CSV-IMPORT"],
                    f.at),
         id |-> aircraftID]

\* timestamp := baseTimestamp + int64(record.TimestampSeconds*1000)
CSVRows(csvData) ==
    [i \in 1..Len(csvData.Records) |->
        [aircraft_id |-> 0,
         timestamp |-> baseTimestamp
                         + Int64OfMillis(csvData.Records[i].TimestampSeconds),
         data |-> csvData.Records[i].data]]

importPositionDataFromCSV(t, aircraftID, csvData, f) ==
    InsertRows(t, "position", CSVRows(csvData), aircraftID, f.at)

importAttitudeDataFromCSV(t, aircraftID, csvData, f) ==
    InsertRows(t, "attitude", CSVRows(csvData), aircraftID, f.at)

importEngineDataFromCSV(t, aircraftID, csvData, f) ==
    InsertRows(t, "engine", CSVRows(csvData), aircraftID, f.at)

\* Steps 3 to 5 of ImportFlightFromCSV for the aircraft ac just created.
importRecordsFromCSV(ac, csvData, f) ==
    importEngineDataFromCSV(
        importAttitudeDataFromCSV(
            importPositionDataFromCSV(ac.t, ac.id, csvData, f),
            ac.id, csvData, f),
        ac.id, csvData, f)

\* The part of ImportFlightFromCSV after createFlightFromCSV returned fl.
importAircraftFromCSV(db, fl, csvData, f) ==
    Return(db,
           Commit(importRecordsFromCSV(createAircraftFromCSV(fl.t, fl.id, csvData, f),
                                       csvData, f),
                  f.commit),
           <<[ID |-> fl.id, SourceID |-> 0]>>)

ImportFlightFromCSV(db, csvData, f) ==
    IF Len(csvData.Records) = 0 THEN Rejected(db, "no_records")
    ELSE importAircraftFromCSV(db, createFlightFromCSV(Begin(db), csvData, f),
                               csvData, f)

(***************************************************************************)
(* CSV parsing.  Numbers and instants are written in decimal digits; an   *)
(* instant counts ticks.  Any other text is rejected by strconv.ParseFloat*)
(* and by time.Parse.                                                      *)
(***************************************************************************)
DigitChars == <<"0", "1", "2", "3", "4", "5", "6", "7", "8", "9">>

DigitValue == [c \in {DigitChars[i] : i \in 1..10} |->
                  CHOOSE v \in 0..9 : DigitChars[v + 1] = c]

\* The decimal text of n.
RECURSIVE Decimal(_)
Decimal(n) ==
    IF n < 10 THEN <<DigitChars[n + 1]>>
    ELSE Decimal(n \div 10) \o <<DigitChars[(n % 10) + 1]>>

RECURSIVE DecimalValue(_)
DecimalValue(text) ==
    IF text = <<>> THEN 0
    ELSE DecimalValue(SubSeq(text, 1, Len(text) - 1)) * 10
           + DigitValue[text[Len(text)]]

\* strconv.ParseFloat(value, 64): the value, or an error.
ParseFloat(value) ==
    IF value = <<>> \/ \E i \in 1..Len(value) : value[i] \notin DOMAIN DigitValue
    THEN [err |-> TRUE, val |-> 0]
    ELSE [err |-> FALSE, val |-> DecimalValue(value)]

\* time.Parse(layout, value): the instant, or an error.
ParseTime(value) == ParseFloat(value)

\* case strings.Contains(header, "Time"): the case of the letters counts.
TimeColumns(headers) == {i \in 1..Len(headers) : Contains(headers[i], ColTime)}

\* flightRecord.Time: the value of the last Time column that is not empty.
TimeOf(headers, record) ==
    IF \A i \in TimeColumns(headers) : record[i] = <<>> THEN <<>>
    ELSE record[Max({i \in TimeColumns(headers) : record[i] # <<>>})]

\* The characters as one string.
RECURSIVE Text(_)
Text(chars) == IF chars = <<>> THEN "" ELSE Head(chars) \o Text(Tail(chars))

\* The number that the record keeps for column i: the number in the field,
\* and zero if the field holds none or the column is a Time column.
FieldValue(headers, record, i) ==
    IF i \in TimeColumns(headers) \/ ParseFloat(record[i]).err
    THEN 0 ELSE ParseFloat(record[i]).val

\* The numbers of the record from column i on, written out.
RECURSIVE RecordData(_, _, _)
RecordData(headers, record, i) ==
    IF i > Len(record) THEN ""
    ELSE Text(Decimal(FieldValue(headers, record, i))) \o ";"
           \o RecordData(headers, record, i + 1)

\* The record of a row: its Time text and the numbers of its columns.
parseCSVRecord(headers, record) ==
    [Time |-> TimeOf(headers, record),
     TimestampSeconds |-> 0,
     data |-> RecordData(headers, record, 1)]

\* startTime := time.Time{}
ZeroTime == [zero |-> TRUE, at |-> 0]

\* The loop of ParseCSVFlightData over the rows below the header.
RECURSIVE parseDataRecords(_, _, _, _)
parseDataRecords(records, headers, startTime, flightRecords) ==
    IF records = <<>> THEN flightRecords
    ELSE IF Len(Head(records)) # Len(headers)
    THEN parseDataRecords(Tail(records), headers, startTime, flightRecords)
    ELSE IF ParseTime(TimeOf(headers, Head(records))).err
    THEN parseDataRecords(Tail(records), headers, startTime,
             Append(flightRecords, parseCSVRecord(headers, Head(records))))
    ELSE IF startTime.zero
    THEN parseDataRecords(Tail(records), headers,
             [zero |-> FALSE, at |-> ParseTime(TimeOf(headers, Head(records))).val],
             Append(flightRecords, parseCSVRecord(headers, Head(records))))
    ELSE parseDataRecords(Tail(records), headers, startTime,
             Append(flightRecords,
                 [parseCSVRecord(headers, Head(records)) EXCEPT
                     !.TimestampSeconds =
                         ParseTime(TimeOf(headers, Head(records))).val - startTime.at]))

\* The index of the first row after the skipped ones that holds the
\* headers, 0 if there is none.
headerRowIndex(records, skip) ==
    IF \A i \in (skip + 1)..Len(records) : ~containsFlightDataHeaders(records[i])
    THEN 0
    ELSE Min({i \in (skip + 1)..Len(records) :
                 containsFlightDataHeaders(records[i])})

\* The data of the rows below the header row, or the error for none.
parseBelowHeader(records, options, header) ==
    IF parseDataRecords(SubSeq(records, header + 1, Len(records)),
                        records[header], ZeroTime, <<>>) = <<>>
    THEN [err |-> "no_records", csvData |-> <<>>]
    ELSE [err |-> "",
          csvData |->
              [FlightTitle |-> options.FlightTitle,
               AircraftType |-> options.AircraftType,
               Records |-> parseDataRecords(SubSeq(records, header + 1, Len(records)),
                                            records[header], ZeroTime, <<>>)]]

ParseCSVFlightData(records, options) ==
    IF Len(records) < 3 THEN [err |-> "too_short", csvData |-> <<>>]
    ELSE IF headerRowIndex(records, options.SkipRows) = 0
    THEN [err |-> "no_header", csvData |-> <<>>]
    ELSE parseBelowHeader(records, options,
                          headerRowIndex(records, options.SkipRows))

ValidateCSVStructure(records) ==
    IF Len(records) < 3 THEN "too_short"
    ELSE IF \A i \in 1..Len(records) : ~containsFlightDataHeaders(records[i])
    THEN "no_header"
    ELSE ""

(***************************************************************************)
(* Upload.  An upload is [Filename, records, sourceDB]: the name of the   *)
(* file, the rows it holds if it is read as CSV and the database it holds *)
(* if it is opened as one.  The temporary directory is the set of the     *)
(* paths of its files.                                                     *)
(***************************************************************************)
\* ".sdlog", ".sqlite", ".db", ".csv"
ValidExtensions ==
    {<<".", "s", "d", "l", "o", "g">>, <<".", "s", "q", "l", "i", "t", "e">>,
     <<".", "d", "b">>, <<".", "c", "s", "v">>}

ExtCSV == <<".", "c", "s", "v">>

\* filepath.Ext(filename): the suffix from the last dot, empty without one.
Ext(filename) ==
    IF \A i \in 1..Len(filename) : filename[i] # "." THEN <<>>
    ELSE SubSeq(filename, Max({i \in 1..Len(filename) : filename[i] = "."}),
                Len(filename))

TrimSuffix(s, suffix) ==
    IF Len(s) >= Len(suffix) /\ SubSeq(s, Len(s) - Len(suffix) + 1, Len(s)) = suffix
    THEN SubSeq(s, 1, Len(s) - Len(suffix)) ELSE s

TrimPrefix(s, prefix) ==
    IF Len(s) >= Len(prefix) /\ SubSeq(s, 1, Len(prefix)) = prefix
    THEN SubSeq(s, Len(prefix) + 1, Len(s)) ELSE s

\* strings.ReplaceAll(s, "_", " ")
ReplaceUnderscores(s) == [i \in 1..Len(s) |-> IF s[i] = "_" THEN " " ELSE s[i]]

\* strings.ToUpper(name[:1]) + name[1:]
Capitalize(name) ==
    IF name = <<>> THEN name
    ELSE IF \E u \in DOMAIN LowerOf : LowerOf[u] = name[1]
    THEN <<CHOOSE u \in DOMAIN LowerOf : LowerOf[u] = name[1]>> \o Tail(name)
    ELSE name

UploadedPrefix == <<"u", "p", "l", "o", "a", "d", "e", "d", "_">>

\* The title of the flight of an uploaded CSV file, as the string that
\* is stored.
extractFlightTitle(filename) ==
    IF TrimPrefix(TrimSuffix(filename, Ext(filename)), UploadedPrefix) = <<>>
    THEN "CSV Flight Data"
    ELSE Text(Capitalize(ReplaceUnderscores(
             TrimPrefix(TrimSuffix(filename, Ext(filename)), UploadedPrefix))))

\* tempDir/uploaded_<time of the request>_<filename>
tempPathOf(now, filename) == <<now, filename>>

\* The import of the parsed file, or the error of the parser.
importParsedCSV(db, parsed, f) ==
    IF parsed.err # ""
    THEN [Rejected(db, "invalid_csv") EXCEPT !.detail = parsed.err]
    ELSE ImportFlightFromCSV(db, parsed.csvData, f)

\* The file is validated, parsed with the default options and imported.
importCSVFile(db, records, filename, f) ==
    IF ValidateCSVStructure(records) # ""
    THEN [Rejected(db, "invalid_csv") EXCEPT !.detail = ValidateCSVStructure(records)]
    ELSE importParsedCSV(db,
             ParseCSVFlightData(records,
                 [FlightTitle |-> extractFlightTitle(filename), AircraftType |-> "Unknown",
                  SkipRows |-> SkipRows]),
             f)

\* The statement of the handler that the file system fails: none, the
\* os.Create of the temporary file, or the io.Copy into it.
IOFailures == {"none", "create", "copy"}

\* What the handler answers and the temporary directory it leaves.
Answer(r, temp) == [r |-> r, temp |-> temp]

\* An error of the file system before the import.
IOError(db) == [Rejected(db, "error") EXCEPT !.injected = TRUE]

\* The import by file type; every path from here removes the file.
importUpload(db, upload, f) ==
    IF ToLower(Ext(upload.Filename)) = ExtCSV
    THEN importCSVFile(db, upload.records, upload.Filename, f)
    ELSE ImportFlightsFromDatabase(db, upload.sourceDB, f)

handleDatabaseUpload(db, temp, tempPath, upload, io, f) ==
    IF ToLower(Ext(upload.Filename)) \notin ValidExtensions THEN Answer(Rejected(db, "bad_request"), temp)
    ELSE IF io = "create" THEN Answer(IOError(db), temp)
    ELSE IF io = "copy" THEN Answer(IOError(db), temp \cup {tempPath})
    ELSE Answer(importUpload(db, upload, f), temp \ {tempPath})

(***************************************************************************)
(* Derivation engine: full duplicate                                       *)
(***************************************************************************)
\* The lookup on the flight_number column instead of title.
flightTitleExistsByNumber(db, title) == \E fl \in db.flight : fl.data = title

\* SELECT COUNT(*) FROM flight WHERE title = ?   (BINARY collation)
flightTitleExists(db, title) == \E fl \in db.flight : fl.title = title

\* Reads through the pool (mainDB), not through the transaction.
getAircraftByFlightIDFromMainDB(db, flightID) ==
    ById({a \in db.aircraft : a.flight_id = flightID})

\* A statement of the transaction that finds no row to scan (sql.ErrNoRows
\* or a NULL it cannot convert) fails the operation without writing.
ScanFails(t) == IF t.err THEN t ELSE [t EXCEPT !.err = TRUE]

duplicateFlightRecord(t, originalFlightID, newTitle, f) ==
    LET found == {fl \in t.db.flight : fl.id = originalFlightID}
        newFlightID == NextRowId(t.db.flight)
    IN  IF found = {} THEN [t |-> ScanFails(t), id |-> 0]
        ELSE [t |-> Exec(t, "flight",
                         [(CHOOSE fl \in found : TRUE) EXCEPT
                             !.id = newFlightID, !.title = newTitle], f.at),
              id |-> newFlightID]

duplicateAircraftRecord(t, ac, newFlightID, f) ==
    LET found == {a \in t.db.aircraft : a.id = ac.id}
        newAircraftID == NextRowId(t.db.aircraft)
    IN  IF found = {} THEN [t |-> ScanFails(t), id |-> 0]
        ELSE [t |-> Exec(t, "aircraft",
                         [(CHOOSE a \in found : TRUE) EXCEPT
                             !.id = newAircraftID, !.flight_id = newFlightID],
                         f.at),
              id |-> newAircraftID]

duplicatePositionData(t, originalAircraftID, newAircraftID, f) ==
    InsertRows(t, "position",
        ByTimestamp({r \in t.db.position : r.aircraft_id = originalAircraftID}),
        newAircraftID, f.at)

duplicateAttitudeData(t, originalAircraftID, newAircraftID, f) ==
    InsertRows(t, "attitude",
        ByTimestamp({r \in t.db.attitude : r.aircraft_id = originalAircraftID}),
        newAircraftID, f.at)

duplicateEngineData(t, originalAircraftID, newAircraftID, f) ==
    InsertRows(t, "engine",
        ByTimestamp({r \in t.db.engine : r.aircraft_id = originalAircraftID}),
        newAircraftID, f.at)

\* The telemetry of aircraft ac copied to its duplicate n.
duplicateAircraftData(n, ac, f) ==
    duplicateEngineData(
        duplicateAttitudeData(
            duplicatePositionData(n.t, ac.id, n.id, f),
            ac.id, n.id, f),
        ac.id, n.id, f)

\* Step 3 of duplicateFlight: the loop over the aircraft of the original.
RECURSIVE duplicateAircraftLoop(_, _, _, _)
duplicateAircraftLoop(t, acs, newFlightID, f) ==
    IF acs = <<>> \/ t.err THEN t
    ELSE duplicateAircraftLoop(
             duplicateAircraftData(
                 duplicateAircraftRecord(t, Head(acs), newFlightID, f), Head(acs), f),
             Tail(acs), newFlightID, f)

\* INSERT INTO markers (flight_id, time_seconds, label): the type column is
\* not named and takes its default.
RECURSIVE duplicateMarkersLoop(_, _, _, _)
duplicateMarkersLoop(t, rows, newFlightID, f) ==
    IF rows = <<>> \/ t.err THEN t
    ELSE duplicateMarkersLoop(
             Exec(t, "markers",
                  [id |-> NextMarkerId(t.db), flight_id |-> newFlightID,
                   time_seconds |-> Head(rows).time_seconds,
                   label |-> Head(rows).label, type |-> "regular"], f.at),
             Tail(rows), newFlightID, f)

MarkersOf(db, flightID) == {m \in db.markers : m.flight_id = flightID}

ByTimeSeconds(S) == OrderBy(S, [m \in S |-> m.time_seconds])

duplicateMarkers(t, originalFlightID, newFlightID, f) ==
    duplicateMarkersLoop(t, ByTimeSeconds(MarkersOf(t.db, originalFlightID)),
                         newFlightID, f)

\* Steps 3 and 4 of duplicateFlight and its commit, for the new flight fl
\* and the aircraft acs that step 2 read.
duplicateAircraftOf(db, fl, acs, originalFlightID, f) ==
    Return(db,
           Commit(duplicateMarkers(
                      duplicateAircraftLoop(fl.t, acs, fl.id, f),
                      originalFlightID, fl.id, f),
                  f.commit),
           <<[ID |-> fl.id, SourceID |-> originalFlightID]>>)

\* Steps 2 to 4 of duplicateFlight and its commit, for the new flight fl.
duplicateIntoFlight(db, fl, originalFlightID, f) ==
    duplicateAircraftOf(db, fl, getAircraftByFlightIDFromMainDB(db, originalFlightID),
                        originalFlightID, f)

duplicateFlight(db, originalFlightID, newTitle, f) ==
    duplicateIntoFlight(db,
        duplicateFlightRecord(Begin(db), originalFlightID, newTitle, f),
        originalFlightID, f)

handleDuplicateFlight(db, FlightID, NewTitle, f) ==
    IF FlightID = 0 \/ NewTitle = "" THEN Rejected(db, "bad_request")
    ELSE IF flightTitleExists(db, NewTitle) THEN Rejected(db, "title_exists")
    ELSE duplicateFlight(db, FlightID, NewTitle, f)

(***************************************************************************)
(* Derivation engine: trim                                                 *)
(***************************************************************************)
\* The timestamp rebased to zero instead of to the series' minimum.
adjustedTimestampFromZero(timestamp, minTimestamp, startTimestamp) ==
    timestamp - startTimestamp

\* adjustedTimestamp := minTimestamp + (timestamp - startTimestamp)
adjustedTimestamp(timestamp, minTimestamp, startTimestamp) ==
    minTimestamp + (timestamp - startTimestamp)

\* The selection with "timestamp > ?" as the lower end of the range.
rowsInRangeExclusive(series, startTimestamp, endTimestamp) ==
    ByTimestamp({r \in series :
                    r.timestamp > startTimestamp /\ r.timestamp <= endTimestamp})

\* WHERE aircraft_id = ? AND timestamp >= ? AND timestamp <= ? ORDER BY timestamp
rowsInRange(series, startTimestamp, endTimestamp) ==
    ByTimestamp({r \in series :
                    r.timestamp >= startTimestamp /\ r.timestamp <= endTimestamp})

\* The selected rows with their timestamps rebased.
rebased(rows, minTimestamp, startTimestamp) ==
    [i \in 1..Len(rows) |->
        [rows[i] EXCEPT !.timestamp =
            adjustedTimestamp(rows[i].timestamp, minTimestamp, startTimestamp)]]

\* startTimestamp := minTimestamp + int64(startTime*1000), endTimestamp
\* likewise, and the rows to insert.
trimmedRows(series, minTimestamp, startTime, endTime) ==
    rebased(rowsInRange(series, minTimestamp + Int64OfMillis(startTime),
                        minTimestamp + Int64OfMillis(endTime)),
            minTimestamp, minTimestamp + Int64OfMillis(startTime))

\* The trimmed copy of one telemetry series.  SELECT MIN(timestamp) yields
\* NULL for an aircraft without rows in the table, and scanning NULL into
\* an int64 is an error.
duplicateSeriesTrimmed(t, table, originalAircraftID, newAircraftID, startTime, endTime, f) ==
    IF t.err THEN t
    ELSE IF Series(t.db, table, originalAircraftID) = {} THEN ScanFails(t)
    ELSE InsertRows(t, table,
             trimmedRows(Series(t.db, table, originalAircraftID),
                         Min({r.timestamp : r \in Series(t.db, table, originalAircraftID)}),
                         startTime, endTime),
             newAircraftID, f.at)

duplicatePositionDataTrimmed(t, originalAircraftID, newAircraftID, startTime, endTime, f) ==
    duplicateSeriesTrimmed(t, "position", originalAircraftID, newAircraftID,
                           startTime, endTime, f)

duplicateAttitudeDataTrimmed(t, originalAircraftID, newAircraftID, startTime, endTime, f) ==
    duplicateSeriesTrimmed(t, "attitude", originalAircraftID, newAircraftID,
                           startTime, endTime, f)

duplicateEngineDataTrimmed(t, originalAircraftID, newAircraftID, startTime, endTime, f) ==
    duplicateSeriesTrimmed(t, "engine", originalAircraftID, newAircraftID,
                           startTime, endTime, f)

\* The telemetry of aircraft ac trimmed into its duplicate n.
trimAircraftData(n, ac, startTime, endTime, f) ==
    duplicateEngineDataTrimmed(
        duplicateAttitudeDataTrimmed(
            duplicatePositionDataTrimmed(n.t, ac.id, n.id, startTime, endTime, f),
            ac.id, n.id, startTime, endTime, f),
        ac.id, n.id, startTime, endTime, f)

\* Step 3 of trimFlight.
RECURSIVE trimAircraftLoop(_, _, _, _, _, _)
trimAircraftLoop(t, acs, newFlightID, startTime, endTime, f) ==
    IF acs = <<>> \/ t.err THEN t
    ELSE trimAircraftLoop(
             trimAircraftData(
                 duplicateAircraftRecord(t, Head(acs), newFlightID, f), Head(acs),
                 startTime, endTime, f),
             Tail(acs), newFlightID, startTime, endTime, f)

RECURSIVE duplicateMarkersTrimmedLoop(_, _, _, _, _)
duplicateMarkersTrimmedLoop(t, rows, newFlightID, startTime, f) ==
    IF rows = <<>> \/ t.err THEN t
    ELSE duplicateMarkersTrimmedLoop(
             Exec(t, "markers",
                  [id |-> NextMarkerId(t.db), flight_id |-> newFlightID,
                   time_seconds |-> Head(rows).time_seconds - startTime,
                   label |-> Head(rows).label, type |-> Head(rows).type], f.at),
             Tail(rows), newFlightID, startTime, f)

\* One UPDATE that moves the markers of the window to the new flight in
\* place of the INSERT of copies.
duplicateMarkersTrimmedInPlace(t, originalFlightID, newFlightID, startTime, endTime, f) ==
    LET moved == {m \in MarkersOf(t.db, originalFlightID) :
                     m.time_seconds >= startTime /\ m.time_seconds <= endTime}
    IN  IF t.err THEN t
        ELSE IF t.n + 1 = f.at THEN [t EXCEPT !.err = TRUE, !.injected = TRUE]
        ELSE [t EXCEPT !.n = @ + 1,
                       !.db.markers = (@ \ moved) \cup
                           {[m EXCEPT !.flight_id = newFlightID,
                                      !.time_seconds = @ - startTime] : m \in moved}]

duplicateMarkersTrimmed(t, originalFlightID, newFlightID, startTime, endTime, f) ==
    duplicateMarkersTrimmedLoop(t,
        ByTimeSeconds({m \in MarkersOf(t.db, originalFlightID) :
                          m.time_seconds >= startTime /\ m.time_seconds <= endTime}),
        newFlightID, startTime, f)

\* Steps 3 and 4 of trimFlight and its commit, for the new flight fl and the
\* aircraft acs that step 2 read.
trimAircraftOf(db, fl, acs, originalFlightID, startTime, endTime, f) ==
    Return(db,
           Commit(duplicateMarkersTrimmed(
                      trimAircraftLoop(fl.t, acs, fl.id, startTime, endTime, f),
                      originalFlightID, fl.id, startTime, endTime, f),
                  f.commit),
           <<[ID |-> fl.id, SourceID |-> originalFlightID]>>)

\* Steps 2 to 4 of trimFlight and its commit, for the new flight fl.
trimIntoFlight(db, fl, originalFlightID, startTime, endTime, f) ==
    trimAircraftOf(db, fl, getAircraftByFlightIDFromMainDB(db, originalFlightID),
                   originalFlightID, startTime, endTime, f)

trimFlight(db, originalFlightID, newTitle, startTime, endTime, f) ==
    trimIntoFlight(db,
        duplicateFlightRecord(Begin(db), originalFlightID, newTitle, f),
        originalFlightID, startTime, endTime, f)

\* The range checks of handleTrimFlight.
RangeNotIncreasing(StartTime, EndTime) == EndTime <= StartTime

\* The comparison with <= in place of <.
RangeTooSmallInclusive(StartTime, EndTime) ==
    EndTime - StartTime <= MinTrimSeconds * Resolution

RangeTooSmall(StartTime, EndTime) ==
    EndTime - StartTime < MinTrimSeconds * Resolution

handleTrimFlight(db, FlightID, NewTitle, StartTime, EndTime, f) ==
    IF FlightID = 0 \/ NewTitle = "" THEN Rejected(db, "bad_request")
    ELSE IF RangeNotIncreasing(StartTime, EndTime) THEN Rejected(db, "bad_range")
    ELSE IF RangeTooSmall(StartTime, EndTime) THEN Rejected(db, "range_too_small")
    ELSE IF flightTitleExists(db, NewTitle) THEN Rejected(db, "title_exists")
    ELSE trimFlight(db, FlightID, NewTitle, StartTime, EndTime, f)

(***************************************************************************)
(* Delete                                                                  *)
(***************************************************************************)
\* One DELETE statement of a transaction: it leaves the view newdb.
ExecDelete(t, newdb, failAt) ==
    IF t.err THEN t
    ELSE IF t.n + 1 = failAt THEN [t EXCEPT !.err = TRUE, !.injected = TRUE]
    ELSE [t EXCEPT !.db = newdb, !.n = t.n + 1]

\* The tables DeleteFlight clears per aircraft, in the order of its
\* statements.  No operation of the store ever writes the last five.
PerAircraftTables ==
    <<"position", "attitude", "engine", "handle", "light",
      "primary_flight_control", "secondary_flight_control", "waypoint">>

\* The DELETE without its WHERE clause.
DeleteTelemetryAll(db, table, aircraftID) ==
    IF table \in Telemetry THEN [db EXCEPT ![table] = {}] ELSE db

\* DELETE FROM <table> WHERE aircraft_id = ?
DeleteTelemetry(db, table, aircraftID) ==
    IF table \in Telemetry
    THEN [db EXCEPT ![table] = {r \in @ : r.aircraft_id # aircraftID}]
    ELSE db

\* The per-aircraft deletes of one aircraft, table by table.
RECURSIVE deleteAircraftData(_, _, _, _)
deleteAircraftData(t, tables, aircraftID, f) ==
    IF tables = <<>> \/ t.err THEN t
    ELSE deleteAircraftData(
             ExecDelete(t, DeleteTelemetry(t.db, Head(tables), aircraftID), f.at),
             Tail(tables), aircraftID, f)

RECURSIVE deleteAircraftDataLoop(_, _, _)
deleteAircraftDataLoop(t, aircraftIDs, f) ==
    IF aircraftIDs = <<>> \/ t.err THEN t
    ELSE deleteAircraftDataLoop(
             deleteAircraftData(t, PerAircraftTables, Head(aircraftIDs), f),
             Tail(aircraftIDs), f)

getAircraftIDsForFlight(t, flightID) ==
    LET acs == ById({a \in t.db.aircraft : a.flight_id = flightID})
    IN  [i \in 1..Len(acs) |-> acs[i].id]

\* DELETE FROM markers WHERE flight_id = ?
deleteMarkersOfFlight(t, flightID, f) ==
    ExecDelete(t, [t.db EXCEPT !.markers = {m \in @ : m.flight_id # flightID}], f.at)

\* DELETE FROM aircraft WHERE flight_id = ?
deleteAircraftOfFlight(t, flightID, f) ==
    ExecDelete(t, [t.db EXCEPT !.aircraft = {a \in @ : a.flight_id # flightID}], f.at)

\* DELETE FROM flight WHERE id = ?, with the RowsAffected of the statement.
deleteFlightRow(t, flightID, f) ==
    [t |-> ExecDelete(t, [t.db EXCEPT !.flight = {fl \in @ : fl.id # flightID}],
                      f.at),
     rowsAffected |-> Cardinality({fl \in t.db.flight : fl.id = flightID})]

\* The statements of DeleteFlight in their order.
deleteStatements(t, flightID, f) ==
    deleteFlightRow(
        deleteAircraftOfFlight(
            deleteMarkersOfFlight(
                deleteAircraftDataLoop(t, getAircraftIDsForFlight(t, flightID), f),
                flightID, f),
            flightID, f),
        flightID, f)

\* The commit before the check of RowsAffected.
finishDeleteCommitFirst(db, d, f) ==
    IF d.t.err THEN Result(Rollback(db, d.t), "error", d.t, <<>>)
    ELSE IF Commit(d.t, f.commit).err
         THEN Result(Rollback(db, d.t), "error", Commit(d.t, f.commit), <<>>)
    ELSE IF d.rowsAffected = 0 THEN Result(d.t.db, "not_found", d.t, <<>>)
    ELSE Result(d.t.db, "ok", d.t, <<>>)

\* The end of DeleteFlight: the error of a DELETE, the not-found check on
\* the RowsAffected of the last one, and the commit.
finishDelete(db, d, f) ==
    IF d.t.err THEN Result(Rollback(db, d.t), "error", d.t, <<>>)
    ELSE IF d.rowsAffected = 0 THEN Result(Rollback(db, d.t), "not_found", d.t, <<>>)
    ELSE IF Commit(d.t, f.commit).err
         THEN Result(Rollback(db, d.t), "error", Commit(d.t, f.commit), <<>>)
    ELSE Result(d.t.db, "ok", d.t, <<>>)

DeleteFlight(db, flightID, f) ==
    IF flightID <= 0 THEN Rejected(db, "invalid_id")
    ELSE finishDelete(db, deleteStatements(Begin(db), flightID, f), f)

getFlightByIDFromMainDB(db, flightID) == {fl \in db.flight : fl.id = flightID}

\* The answer of handleDeleteFlight to the result r of DeleteFlight: any
\* error is a 500.
deleteResponse(r) == IF r.res = "ok" THEN r ELSE [r EXCEPT !.res = "error"]

handleDeleteFlight(db, flightId, f) ==
    IF getFlightByIDFromMainDB(db, flightId) = {} THEN Rejected(db, "not_found")
    ELSE deleteResponse(DeleteFlight(db, flightId, f))

(***************************************************************************)
(* Markers                                                                 *)
(***************************************************************************)
\* One statement executed on mainDB outside any transaction (autocommit).
createMarker(db, marker, f) ==
    LET type == IF marker.type = "" THEN "regular" ELSE marker.type
        id == NextMarkerId(db)
    IN  IF f.at = 1
        THEN [db |-> db, res |-> "error", tx |-> FALSE, wrote |-> FALSE, n |-> 0,
              injected |-> TRUE, ids |-> <<>>, detail |-> ""]
        ELSE [db |-> Insert(db, "markers",
                            [id |-> id, flight_id |-> marker.flight_id,
                             time_seconds |-> marker.time_seconds,
                             label |-> marker.label, type |-> type]),
              res |-> "ok", tx |-> FALSE, wrote |-> TRUE, n |-> 1,
              injected |-> FALSE,
              ids |-> <<[ID |-> id, SourceID |-> 0]>>, detail |-> ""]

handleCreateMarker(db, marker, f) ==
    IF marker.flight_id = 0 \/ marker.label = "" THEN Rejected(db, "bad_request")
    ELSE createMarker(db, marker, f)

\* One statement executed on mainDB outside any transaction; it leaves the
\* store newdb unless the database fails it.
ExecOnMainDB(db, newdb, f, ids) ==
    IF f.at = 1
    THEN [db |-> db, res |-> "error", tx |-> FALSE, wrote |-> FALSE, n |-> 0,
          injected |-> TRUE, ids |-> <<>>, detail |-> ""]
    ELSE [db |-> newdb, res |-> "ok", tx |-> FALSE, wrote |-> TRUE, n |-> 1,
          injected |-> FALSE, ids |-> ids, detail |-> ""]

\* DELETE FROM markers WHERE id = ?   The number of rows deleted is not
\* looked at.
deleteMarker(db, markerID, f) ==
    ExecOnMainDB(db, [db EXCEPT !.markers = {m \in @ : m.id # markerID}], f, <<>>)

\* The id parameter is a string; NoID is a query without it.
NoID == -1

handleDeleteMarker(db, markerId, f) ==
    IF markerId = NoID THEN Rejected(db, "bad_request")
    ELSE deleteMarker(db, markerId, f)

TrimKinds == {"trim_start", "trim_end"}

\* SELECT ... FROM markers WHERE flight_id = ? AND type = ?, first row: the
\* search runs on markers_type_idx, whose entries of one (flight_id, type)
\* are in rowid order.
getTrimMarker(db, flightID, markerType) ==
    LET found == {m \in db.markers : m.flight_id = flightID /\ m.type = markerType}
    IN  IF found = {} THEN {}
        ELSE {CHOOSE m \in found : \A x \in found : m.id <= x.id}

\* UPDATE markers SET time_seconds = ?, label = ? WHERE id = ?
updateTrimMarker(db, existingMarker, time, label, f) ==
    ExecOnMainDB(db,
        [db EXCEPT !.markers = (@ \ {existingMarker}) \cup
            {[existingMarker EXCEPT !.time_seconds = time, !.label = label]}],
        f, <<[ID |-> existingMarker.id, SourceID |-> 0]>>)

createOrUpdateTrimMarker(db, flightID, markerType, time, label, f) ==
    IF markerType \notin TrimKinds THEN Rejected(db, "error")
    ELSE IF getTrimMarker(db, flightID, markerType) # {}
    THEN updateTrimMarker(db,
             CHOOSE m \in getTrimMarker(db, flightID, markerType) : TRUE,
             time, label, f)
    ELSE createMarker(db, [flight_id |-> flightID, time_seconds |-> time,
                           label |-> label, type |-> markerType], f)

handleCreateTrimMarker(db, request, f) ==
    IF request.flight_id = 0 \/ request.type = "" THEN Rejected(db, "bad_request")
    ELSE createOrUpdateTrimMarker(db, request.flight_id, request.type,
                                  request.time, request.label, f)

\* DELETE FROM markers WHERE flight_id = ? AND type IN ('trim_start', 'trim_end')
deleteTrimMarkers(db, flightID, f) ==
    ExecOnMainDB(db,
        [db EXCEPT !.markers =
            {m \in @ : ~(m.flight_id = flightID /\ m.type \in TrimKinds)}],
        f, <<>>)

handleDeleteTrimMarkers(db, flightId, f) == deleteTrimMarkers(db, flightId, f)

(***************************************************************************)
(* Schema setup.  The schema of the database file is the set of its       *)
(* tables, the set of its indexes and, of the columns, the two that the   *)
(* additive migrations add: markers.type and position.indicated_airspeed. *)
(* A DDL statement is [kind, name, table, guarded]; guarded is the        *)
(* IF NOT EXISTS of the statement.  SQLite refuses to create a table, an  *)
(* index or a column that exists, and an index or a column on a table     *)
(* that does not exist.                                                    *)
(***************************************************************************)
EmptySchema == [tables |-> {}, indexes |-> {}, columns |-> {}]

CreateTable(name) ==
    [kind |-> "table", name |-> name, table |-> name, guarded |-> FALSE]

CreateIndex(name, table) ==
    [kind |-> "index", name |-> name, table |-> table, guarded |-> FALSE]

AddColumn(table, name) ==
    [kind |-> "column", name |-> name, table |-> table, guarded |-> FALSE]

\* data/structure.sql, statement by statement.
BaselineScript ==
    <<CreateTable("aircraft_type"),
      CreateIndex("aircraft_type_idx", "aircraft_type"),
      CreateTable("enum_backup_period"),
      CreateIndex("enum_backup_period_idx1", "enum_backup_period"),
      CreateTable("enum_country"),
      CreateIndex("enum_country_idx1", "enum_country"),
      CreateTable("enum_engine_event"),
      CreateIndex("enum_engine_event_idx1", "enum_engine_event"),
      CreateTable("enum_location_category"),
      CreateIndex("enum_location_category_idx1", "enum_location_category"),
      CreateTable("enum_location_type"),
      CreateIndex("enum_location_type_idx1", "enum_location_type"),
      CreateTable("flight"), CreateTable("migr"), CreateTable("aircraft"),
      CreateIndex("aircraft_idx1", "aircraft"),
      CreateIndex("aircraft_idx2", "aircraft"), CreateTable("attitude"),
      CreateTable("engine"), CreateTable("handle"), CreateTable("light"),
      CreateTable("location"), CreateIndex("location_idx1", "location"),
      CreateIndex("location_idx2", "location"),
      CreateIndex("location_idx3", "location"),
      CreateIndex("location_idx4", "location"),
      CreateIndex("location_idx5", "location"),
      CreateIndex("location_idx6", "location"), CreateTable("metadata"),
      CreateTable("position"), CreateTable("primary_flight_control"),
      CreateTable("secondary_flight_control"), CreateTable("waypoint"),
      CreateIndex("waypoint_idx1", "waypoint")>>

\* CREATE TABLE markers (... type TEXT NOT NULL DEFAULT 'regular' ...)
CreateMarkersTable == [CreateTable("markers") EXCEPT !.kind = "markers"]

\* markersSchema of ensureMarkersTable.
MarkersScript ==
    <<CreateMarkersTable,
      CreateIndex("markers_flight_id_idx", "markers"),
      CreateIndex("markers_time_idx", "markers"),
      CreateIndex("markers_type_idx", "markers")>>

\* ALTER TABLE markers ADD COLUMN type TEXT NOT NULL DEFAULT 'regular'
AddTypeColumn == AddColumn("markers", "type")

\* CREATE INDEX IF NOT EXISTS markers_type_idx ON markers (flight_id, type)
AddTypeIndex ==
    [CreateIndex("markers_type_idx", "markers") EXCEPT !.guarded = TRUE]

\* ALTER TABLE position ADD COLUMN indicated_airspeed REAL
AddIndicatedAirspeed == AddColumn("position", "indicated_airspeed")

ObjectExists(sch, stmt) ==
    CASE stmt.kind \in {"table", "markers"} -> stmt.name \in sch.tables
      [] stmt.kind = "index" -> stmt.name \in sch.indexes
      [] OTHER -> <<stmt.table, stmt.name>> \in sch.columns

AddObject(sch, stmt) ==
    CASE stmt.kind = "table" -> [sch EXCEPT !.tables = @ \cup {stmt.name}]
      [] stmt.kind = "markers" ->
            [sch EXCEPT !.tables = @ \cup {stmt.name},
                        !.columns = @ \cup {<<stmt.name, "type">>}]
      [] stmt.kind = "index" -> [sch EXCEPT !.indexes = @ \cup {stmt.name}]
      [] OTHER -> [sch EXCEPT !.columns = @ \cup {<<stmt.table, stmt.name>>}]

\* A run of schema setup: the schema it has reached, the number of DDL
\* statements it has attempted and executed, the error it is returning,
\* whether any statement failed and whether the environment failed one.
BeginDDL(sch) ==
    [schema |-> sch, n |-> 0, done |-> 0, err |-> FALSE, failed |-> FALSE,
     injected |-> FALSE]

DDLError(s, injected) ==
    [s EXCEPT !.n = @ + 1, !.err = TRUE, !.failed = TRUE,
              !.injected = @ \/ injected]

\* One DDL statement; failAt names the statement the environment fails.
ExecDDL(s, stmt, failAt) ==
    IF s.err THEN s
    ELSE IF s.n + 1 = failAt THEN DDLError(s, TRUE)
    ELSE IF ObjectExists(s.schema, stmt)
         THEN IF stmt.guarded THEN [s EXCEPT !.n = @ + 1, !.done = @ + 1]
              ELSE DDLError(s, FALSE)
    ELSE IF stmt.kind \in {"index", "column"} /\ stmt.table \notin s.schema.tables
         THEN DDLError(s, FALSE)
    ELSE [s EXCEPT !.schema = AddObject(@, stmt), !.n = @ + 1, !.done = @ + 1]

\* mainDB.Exec of a script: statement after statement, each committed on its
\* own, up to the first that fails.
RECURSIVE ExecScript(_, _, _)
ExecScript(s, script, failAt) ==
    IF script = <<>> THEN s
    ELSE ExecScript(ExecDDL(s, Head(script), failAt), Tail(script), failAt)

\* The ALTER TABLE issued whether or not the column is there.
ensureMarkerTypeColumnUnchecked(s, failAt) ==
    ExecDDL(ExecDDL(s, AddTypeColumn, failAt), AddTypeIndex, failAt)

ensureMarkerTypeColumn(s, failAt) ==
    IF s.err \/ <<"markers", "type">> \in s.schema.columns THEN s
    ELSE ExecDDL(ExecDDL(s, AddTypeColumn, failAt), AddTypeIndex, failAt)

ensureMarkersTable(s, failAt) ==
    IF s.err THEN s
    ELSE IF "markers" \in s.schema.tables THEN ensureMarkerTypeColumn(s, failAt)
    ELSE ExecScript(s, MarkersScript, failAt)

\* PRAGMA table_info of a table that does not exist yields no rows.
ensurePositionTableColumns(s, failAt) ==
    IF s.err \/ <<"position", "indicated_airspeed">> \in s.schema.columns THEN s
    ELSE ExecDDL(s, AddIndicatedAirspeed, failAt)

EssentialTables == {"flight", "aircraft", "position"}

\* The error of the baseline script is dropped when the essential tables
\* exist after it.
checkEssentialTables(s) ==
    IF s.err /\ EssentialTables \subseteq s.schema.tables
    THEN [s EXCEPT !.err = FALSE]
    ELSE s

createMainDatabaseSchema(sch, failAt) ==
    IF "flight" \in sch.tables
    THEN ensurePositionTableColumns(
             ensureMarkersTable(BeginDDL(sch), failAt), failAt)
    ELSE ensurePositionTableColumns(
             ensureMarkersTable(
                 checkEssentialTables(
                     ExecScript(BeginDDL(sch), BaselineScript, failAt)),
                 failAt),
             failAt)

\* The result of InitMainDatabase for the run s of createMainDatabaseSchema.
InitMainDatabase(s) ==
    [schema |-> s.schema, res |-> IF s.err THEN "error" ELSE "ok",
     tx |-> FALSE, wrote |-> s.done > 0, n |-> s.n,
     injected |-> s.injected, failed |-> s.failed, ids |-> <<>>,
     detail |-> ""]

\* The schema of a database file that schema setup created undisturbed.
FullSchema == createMainDatabaseSchema(EmptySchema, 0).schema

\* The DDL statements the environment may fail: any of a run, or none.
DDLFailPoints == 0..(Len(BaselineScript) + Len(MarkersScript) + 1)

(***************************************************************************)
(* GPS relay.  The listener goroutine and the goroutines of the HTTP       *)
(* handlers share maxDistanceNM, targetIP, isSendingToTarget and          *)
(* currentGPS, each with a mutex of its own.  Every Lock, every critical  *)
(* section and every access outside one is a step of its goroutine.       *)
(* Positions lie on the meridian of Currock Hill and are given in arc     *)
(* minutes north of it; distances are in thousandths of a nautical mile.  *)
(***************************************************************************)
\* maxDistanceNM = 9.0
DefaultMaxDistanceNM == 9000

Mutexes == {"gpsMutex", "sendingMutex", "targetIPMutex", "maxDistanceMux"}

\* The mutex that is dedicated to each shared variable.
MutexOf ==
    [currentGPS |-> "gpsMutex", isSendingToTarget |-> "sendingMutex",
     targetIP |-> "targetIPMutex", maxDistanceNM |-> "maxDistanceMux"]

\* The goroutines: the listener and the handlers of MaxHandlers requests
\* at a time.
MaxHandlers == 1
Handlers == 1..MaxHandlers
Listener == 0

\* No goroutine holds the mutex.
Unlocked == -1

\* A goroutine that waits for a datagram or for a request.
Waiting == [op |-> "", pc |-> "wait", arg |-> 0]

\* R * c for two points of one meridian that are minutes arc minutes
\* apart: R = 3440.065 and c = minutes * Pi / 10800.
calculateDistanceNM(minutes) ==
    ((IF minutes < 0 THEN -minutes ELSE minutes) * 1000681) \div 1000

\* Datagrams on port 49002: XGPS packets 5 and 12 arc minutes from Currock
\* Hill, and a datagram that is no XGPS packet.
Packets ==
    {[header |-> "XGPS", north |-> 5], [header |-> "XGPS", north |-> -12],
     [header |-> "XATT", north |-> 0]}

\* Values of the form fields of the handlers: distance thresholds and
\* target addresses.
Thresholds == {9000, 15000}
TargetIPs == {"192.168.178.194", "10.0.0.2"}

\* The state of the package after Init(): no position, the default
\* threshold and target, sending off, and the listener at ReadFromUDP.
GPSStart ==
    [currentGPS |-> [set |-> FALSE, north |-> 0], maxDistanceNM |-> DefaultMaxDistanceNM,
     targetIP |-> "192.168.178.194", isSendingToTarget |-> FALSE,
     mutex |-> [m \in Mutexes |-> Unlocked],
     listener |-> [pc |-> "read", packet |-> [header |-> "", north |-> 0],
                   shouldSend |-> FALSE],
     http |-> [h \in Handlers |-> Waiting],
     access |-> [by |-> Listener, var |-> "", write |-> FALSE, guarded |-> TRUE],
     sent |-> [forwarded |-> FALSE, to |-> ""],
     manual |-> "none"]

\* The access of goroutine g to the shared variable var in state s.
Access(s, g, var, write) ==
    [by |-> g, var |-> var, write |-> write,
     guarded |-> s.mutex[MutexOf[var]] = g]

\* mutex.Lock() of goroutine g, which waits while the mutex is held.
CanLock(s, m) == s.mutex[m] = Unlocked
Lock(s, g, m) == [s EXCEPT !.mutex[m] = g]
Unlock(s, m) == [s EXCEPT !.mutex[m] = Unlocked]

\* The listener moves on to pc.
ListenerAt(s, pc) == [s EXCEPT !.listener.pc = pc]

\* conn.ReadFromUDP: a datagram arrives.  A datagram without the XGPS
\* header is dropped.
ReadFromUDP(s, packet) ==
    IF packet.header = "XGPS"
    THEN [ListenerAt(s, "lock_gps") EXCEPT !.listener.packet = packet,
                                           !.sent.forwarded = FALSE]
    ELSE s

\* currentGPS = &position, between gpsMutex.Lock() and Unlock().
updatePosition(s) ==
    [Unlock(ListenerAt(s, "distance"), "gpsMutex") EXCEPT
        !.currentGPS = [set |-> TRUE, north |-> s.listener.packet.north],
        !.access = Access(s, Listener, "currentGPS", TRUE)]

\* shouldSend := distance <= maxDistanceNM
decideShouldSend(s) ==
    [ListenerAt(s, "lock_sending") EXCEPT
        !.listener.shouldSend =
            calculateDistanceNM(s.listener.packet.north) <= s.maxDistanceNM,
        !.access = Access(s, Listener, "maxDistanceNM", FALSE)]

\* if isSendingToTarget != shouldSend { isSendingToTarget = shouldSend }
updateSendingState(s) ==
    [Unlock(ListenerAt(s, IF s.listener.shouldSend THEN "lock_target" ELSE "read"),
            "sendingMutex") EXCEPT
        !.isSendingToTarget = s.listener.shouldSend,
        !.access = Access(s, Listener, "isSendingToTarget",
                          s.isSendingToTarget # s.listener.shouldSend)]

\* if shouldSend { ... targetConn.Write(buffer[:n]) ... }
forwardPacket(s) ==
    [Unlock(ListenerAt(s, "read"), "targetIPMutex") EXCEPT
        !.sent = [forwarded |-> s.targetIP # "", to |-> s.targetIP],
        !.access = Access(s, Listener, "targetIP", FALSE)]

\* One step of startUDPListener.
ListenerStep(s, packet) ==
    CASE s.listener.pc = "read" -> ReadFromUDP(s, packet)
      [] s.listener.pc = "lock_gps" -> ListenerAt(Lock(s, Listener, "gpsMutex"), "set_gps")
      [] s.listener.pc = "set_gps" -> updatePosition(s)
      [] s.listener.pc = "distance" -> decideShouldSend(s)
      [] s.listener.pc = "lock_sending" ->
             ListenerAt(Lock(s, Listener, "sendingMutex"), "set_sending")
      [] s.listener.pc = "set_sending" -> updateSendingState(s)
      [] s.listener.pc = "lock_target" ->
             ListenerAt(Lock(s, Listener, "targetIPMutex"), "forward")
      [] s.listener.pc = "forward" -> forwardPacket(s)

\* The mutex that the listener waits for at its pc, "" if it waits for none.
ListenerWaitsFor(s) ==
    CASE s.listener.pc = "lock_gps" -> "gpsMutex"
      [] s.listener.pc = "lock_sending" -> "sendingMutex"
      [] s.listener.pc = "lock_target" -> "targetIPMutex"
      [] OTHER -> ""

\* The shared variable that each handler and getter works on.
HandlerVar ==
    [handleBroadcastToggleHTMX |-> "isSendingToTarget",
     handleSetDistanceThresholdHTMX |-> "maxDistanceNM",
     handleSetTargetIPHTMX |-> "targetIP",
     IsSendingToTarget |-> "isSendingToTarget",
     GetDistanceThreshold |-> "maxDistanceNM",
     GetTargetIP |-> "targetIP",
     GetCurrentPosition |-> "currentGPS"]

\* The requests: the three handlers that write with their form value, and
\* the getters behind /gps/config and /gps/position.
HandlerCalls ==
    {[op |-> "handleBroadcastToggleHTMX", pc |-> "lock", arg |-> 0]}
      \cup {[op |-> "handleSetDistanceThresholdHTMX", pc |-> "lock", arg |-> t] :
               t \in Thresholds}
      \cup {[op |-> "handleSetTargetIPHTMX", pc |-> "lock", arg |-> ip] :
               ip \in TargetIPs}
      \cup {[op |-> getter, pc |-> "lock", arg |-> 0] :
               getter \in {"IsSendingToTarget", "GetDistanceThreshold",
                           "GetTargetIP", "GetCurrentPosition"}}

\* The critical section of handler h.
HandlerBody(s, h) ==
    CASE s.http[h].op = "handleBroadcastToggleHTMX" ->
             [s EXCEPT !.isSendingToTarget = ~s.isSendingToTarget,
                       !.manual = IF s.isSendingToTarget THEN "off" ELSE "on",
                       !.access = Access(s, h, "isSendingToTarget", TRUE)]
      [] s.http[h].op = "handleSetDistanceThresholdHTMX" ->
             [s EXCEPT !.maxDistanceNM = s.http[h].arg,
                       !.access = Access(s, h, "maxDistanceNM", TRUE)]
      [] s.http[h].op = "handleSetTargetIPHTMX" ->
             [s EXCEPT !.targetIP = s.http[h].arg,
                       !.access = Access(s, h, "targetIP", TRUE)]
      [] OTHER ->
             [s EXCEPT !.access = Access(s, h, HandlerVar[s.http[h].op], FALSE)]

\* One step of handler h: Lock, then the critical section with Unlock.
HandlerStep(s, h) ==
    IF s.http[h].pc = "lock"
    THEN [Lock(s, h, MutexOf[HandlerVar[s.http[h].op]]) EXCEPT !.http[h].pc = "body"]
    ELSE [Unlock(HandlerBody(s, h), MutexOf[HandlerVar[s.http[h].op]]) EXCEPT
             !.http[h] = Waiting]

(***************************************************************************)
(* Requests in flight on the store.  calls maps the number of a request   *)
(* to its position in its handler; locks holds the locks of the database  *)
(* file; clock is the time in seconds.                                     *)
(***************************************************************************)
MaxCalls == 2
Callers == 1..MaxCalls

\* A request in flight: its handler (op), its position in it (pc), its
\* parameters, the temporary file it saved and what that file holds now,
\* the store as its transaction sees it from its first statement on, the
\* aircraft it read through the pool, and its result.
IdleCall ==
    [op |-> "", pc |-> "idle", flightID |-> 0, title |-> "", start |-> 0,
     end |-> 0, upload |-> "", tempPath |-> <<>>, file |-> "",
     snapshot |-> EmptyStore, aircraft |-> <<>>, r |-> Rejected(EmptyStore, "")]

NoCalls == [c \in Callers |-> IdleCall]

\* No connection holds a lock on the database file.
NoLocks == [shared |-> {}, reserved |-> 0]

\* No request is in flight and the GPS relay is as Init() leaves it.
Quiet ==
    /\ calls = NoCalls
    /\ locks = NoLocks
    /\ gps = GPSStart
    /\ clock = 0

(***************************************************************************)
(* Flight data for analysis                                                *)
(***************************************************************************)
\* The rows of a series in ascending order of timestamp, each with its time
\* since the first row of the series.
Points(rows) ==
    [i \in 1..Cardinality(rows) |->
        [Timestamp |-> ByTimestamp(rows)[i].timestamp,
         TimestampSeconds |-> ByTimestamp(rows)[i].timestamp
                              - ByTimestamp(rows)[1].timestamp,
         data |-> ByTimestamp(rows)[i].data]]

getPositionDataWithAirspeedFromMainDB(db, aircraftID) ==
    Points(Series(db, "position", aircraftID))

getEngineDataFromMainDB(db, aircraftID) ==
    Points(Series(db, "engine", aircraftID))

\* The key of an aircraft in the maps of series: its type, followed by its
\* tail number in parentheses when it has one.
aircraftLabel(ac) ==
    IF ac.tail_number # "" THEN ac.type \o " (" \o ac.tail_number \o ")"
    ELSE ac.type

\* m[key] = value on a Go map: a key that is present is overwritten.
MapPut(m, key, value) ==
    [k \in DOMAIN m \cup {key} |-> IF k = key THEN value ELSE m[k]]

EmptyMap == [k \in {} |-> <<>>]

\* One round of the loop over the aircraft of the flight.
labelSeries(db, ac, flightData) ==
    [flightData EXCEPT
       !.PositionData =
           IF Len(getPositionDataWithAirspeedFromMainDB(db, ac.id)) > 0
           THEN MapPut(@, aircraftLabel(ac),
                       getPositionDataWithAirspeedFromMainDB(db, ac.id))
           ELSE @,
       !.EngineData =
           IF Len(getEngineDataFromMainDB(db, ac.id)) > 0
           THEN MapPut(@, aircraftLabel(ac), getEngineDataFromMainDB(db, ac.id))
           ELSE @]

RECURSIVE flightDataLoop(_, _, _)
flightDataLoop(db, acs, flightData) ==
    IF acs = <<>> THEN flightData
    ELSE flightDataLoop(db, Tail(acs), labelSeries(db, Head(acs), flightData))

NoFlightData ==
    [err |-> TRUE, Flight |-> {}, PositionData |-> EmptyMap, EngineData |-> EmptyMap]

\* The flight of the answer: a flight without title is shown as "Untitled".
FlightOf(rows) ==
    {[ID |-> fl.id, Title |-> IF fl.title = "" THEN "Untitled" ELSE fl.title] :
        fl \in rows}

getFlightDataFromMainDB(db, flightID) ==
    IF getFlightByIDFromMainDB(db, flightID) = {} THEN NoFlightData
    ELSE flightDataLoop(db, getAircraftByFlightIDFromMainDB(db, flightID),
                        [err |-> FALSE,
                         Flight |-> FlightOf(getFlightByIDFromMainDB(db, flightID)),
                         PositionData |-> EmptyMap, EngineData |-> EmptyMap])

(***************************************************************************)
(* Statistics.  Values are counted in halves of a unit, so that the mean  *)
(* of the two middle values is a whole number of them.                    *)
(***************************************************************************)
\* arr[i], arr[j] = arr[j], arr[i]
Swap(arr, i, j) == [arr EXCEPT ![i] = arr[j], ![j] = arr[i]]

\* The loop of partition from index j on, with pivot arr[high], and the swap
\* that puts the pivot in its place.
RECURSIVE partitionLoop(_, _, _, _)
partitionLoop(arr, i, j, high) ==
    IF j >= high THEN [arr |-> Swap(arr, i + 1, high), pi |-> i + 1]
    ELSE IF arr[j] < arr[high]
         THEN partitionLoop(Swap(arr, i + 1, j), i + 1, j + 1, high)
         ELSE partitionLoop(arr, i, j + 1, high)

partition(arr, low, high) == partitionLoop(arr, low - 1, low, high)

RECURSIVE quickSort(_, _, _)
quickSort(arr, low, high) ==
    IF low < high
    THEN quickSort(quickSort(partition(arr, low, high).arr,
                             low, partition(arr, low, high).pi - 1),
                   partition(arr, low, high).pi + 1, high)
    ELSE arr

\* The sorted copy of data.
sortedData(data) == quickSort(data, 1, Len(data))

medianOfSorted(sorted, count) ==
    IF count % 2 = 0
    THEN (sorted[count \div 2] + sorted[count \div 2 + 1]) \div 2
    ELSE sorted[count \div 2 + 1]

\* A *DataStatistics: <<>> is nil.  Mean, variance and standard deviation
\* are fractions and are left out.
calculateDataStatistics(data) ==
    IF Len(data) = 0 THEN <<>>
    ELSE <<[Count |-> Len(data),
            Min |-> sortedData(data)[1],
            Max |-> sortedData(data)[Len(data)],
            Range |-> sortedData(data)[Len(data)] - sortedData(data)[1],
            Median |-> medianOfSorted(sortedData(data), Len(data))]>>

\* Only positive airspeeds are included.
airspeedAdmitted(value) == value > 0

\* Altitudes above zero only.
altitudePositive(value) == value > 0

\* Only non-zero altitudes are included.
altitudeAdmitted(value) == value # 0

\* The values of one field of the points, those admitted, in order.
extract(positionData, field, admitted(_)) ==
    [i \in 1..Len(SelectSeq(positionData, LAMBDA point : admitted(point[field]))) |->
        SelectSeq(positionData, LAMBDA point : admitted(point[field]))[i][field]]

seriesStatistics(positionData) ==
    [AirspeedStats |->
        calculateDataStatistics(extract(positionData, "Airspeed", airspeedAdmitted)),
     IndicatedAltitudeStats |->
        calculateDataStatistics(
            extract(positionData, "IndicatedAltitude", altitudeAdmitted)),
     AltitudeStats |->
        calculateDataStatistics(extract(positionData, "Altitude", altitudeAdmitted)),
     PressureAltitudeStats |->
        calculateDataStatistics(
            extract(positionData, "PressureAltitude", altitudeAdmitted))]

\* One entry for every label whose series has points.
CalculateFlightStatistics(flightData) ==
    [label \in {l \in DOMAIN flightData.PositionData :
                    Len(flightData.PositionData[l]) # 0} |->
        seriesStatistics(flightData.PositionData[label])]

(***************************************************************************)
(* State machine                                                           *)
(***************************************************************************)
NoOp ==
    [op |-> "init", res |-> "ok", tx |-> FALSE, wrote |-> FALSE,
     injected |-> FALSE, ids |-> <<>>,
     flightId |-> 0, title |-> "", start |-> 0, end |-> 0, markerId |-> 0,
     ddlFailed |-> FALSE, detail |-> "", source |-> {}, flightData |-> <<>>,
     statistics |-> <<>>]

\* The request that was served last and its outcome.
Served(op, r, flightId, title, start, end) ==
    [op |-> op, res |-> r.res, tx |-> r.tx, wrote |-> r.wrote,
     injected |-> r.injected, ids |-> r.ids,
     flightId |-> flightId, title |-> title, start |-> start, end |-> end,
     markerId |-> 0, ddlFailed |-> FALSE, detail |-> r.detail, source |-> {},
     flightData |-> <<>>, statistics |-> <<>>]

\* Request parameters.  Flight id 0 is what a request without flight_id
\* decodes to; the empty title is a request without new_title.
FlightIDs == 0..MaxFlights
Titles == {"", "A", "T"}

\* (start, end) of trim requests, in ticks: 0 s to 0.5 s, 1.5 s to 0.5 s,
\* 0.5005 s to 1.5005 s, and 0.5005 s to 1.6 s.
TrimRanges == {<<0, 1000>>, <<3000, 1000>>, <<1001, 3001>>, <<1001, 3200>>}

\* Bodies of POST /data-analysis/markers: a trim_start marker at 1 s, a
\* marker without type at 2 s, and a body without label.
MarkerRequests ==
    {[flight_id |-> 1, time_seconds |-> 2000, label |-> "m", type |-> "trim_start"],
     [flight_id |-> 2, time_seconds |-> 4000, label |-> "n", type |-> ""],
     [flight_id |-> 1, time_seconds |-> 4000, label |-> "", type |-> ""]}

WithinBounds(db) ==
    /\ Cardinality(db.flight) <= MaxFlights
    /\ db.markerSeq <= MaxMarkerSeq

\* The store after a request with result r; served counts the requests.
\* Requests are served by the running program and leave the schema alone.
Apply(r) ==
    /\ running
    /\ UNCHANGED <<schema, running, calls, locks, gps, clock>>
    /\ served < MaxRequests
    /\ served' = served + 1
    /\ WithinBounds(r.db)
    /\ flight' = r.db.flight
    /\ aircraft' = r.db.aircraft
    /\ position' = r.db.position
    /\ attitude' = r.db.attitude
    /\ engine' = r.db.engine
    /\ markers' = r.db.markers
    /\ markerSeq' = r.db.markerSeq

Init ==
    /\ flight = {} /\ aircraft = {} /\ position = {} /\ attitude = {}
    /\ engine = {} /\ markers = {} /\ markerSeq = 0
    /\ last = NoOp
    /\ served = 0
    /\ schema = FullSchema
    /\ running = TRUE
    /\ tempDir = {}
    /\ Quiet

\* A request served with result r.
Serve(op, r, flightId, title, start, end) ==
    /\ Apply(r)
    /\ UNCHANGED tempDir
    /\ last' = Served(op, r, flightId, title, start, end)

\* ImportFlightsFromDatabase on a database file that was uploaded and
\* saved.
Import ==
    \E sourceDB \in SourceDBs :
      \E f \in FailuresOf(ImportFlightsFromDatabase(Store, sourceDB, NoFailure)) :
        /\ Apply(ImportFlightsFromDatabase(Store, sourceDB, f))
        /\ last' = [Served("import", ImportFlightsFromDatabase(Store, sourceDB, f),
                           0, "", 0, 0) EXCEPT !.source = sourceDB.tables]
        /\ UNCHANGED tempDir

\* ImportFlightFromCSV on the data of a CSV file that was uploaded, saved
\* and parsed.
ImportCSV ==
    \E csvData \in CSVFiles :
      \E f \in FailuresOf(ImportFlightFromCSV(Store, csvData, NoFailure)) :
        Serve("import_csv", ImportFlightFromCSV(Store, csvData, f),
              0, csvData.FlightTitle, 0, 0)

\* POST /data-analysis/duplicate-flight
Duplicate ==
    \E FlightID \in FlightIDs, NewTitle \in Titles :
      \E f \in FailuresOf(handleDuplicateFlight(Store, FlightID, NewTitle, NoFailure)) :
        Serve("duplicate", handleDuplicateFlight(Store, FlightID, NewTitle, f),
              FlightID, NewTitle, 0, 0)

\* POST /data-analysis/trim-flight
Trim ==
    \E FlightID \in FlightIDs, NewTitle \in Titles, range \in TrimRanges :
      \E f \in FailuresOf(handleTrimFlight(Store, FlightID, NewTitle,
                                            range[1], range[2], NoFailure)) :
        Serve("trim",
              handleTrimFlight(Store, FlightID, NewTitle, range[1], range[2], f),
              FlightID, NewTitle, range[1], range[2])

\* DELETE /data-analysis/delete-flight
Delete ==
    \E flightId \in FlightIDs :
      \E f \in FailuresOf(handleDeleteFlight(Store, flightId, NoFailure)) :
        Serve("delete", handleDeleteFlight(Store, flightId, f), flightId, "", 0, 0)

\* DeleteFlight reached by a request whose lookup of the flight succeeded
\* earlier: a second delete of the same flight may have committed since.
DeleteAgain ==
    \E flightID \in FlightIDs \ {0} :
      \E f \in FailuresOf(DeleteFlight(Store, flightID, NoFailure)) :
        Serve("DeleteFlight", DeleteFlight(Store, flightID, f), flightID, "", 0, 0)

\* POST /data-analysis/markers
CreateMarker ==
    \E marker \in MarkerRequests :
      \E f \in {x \in FailuresOf(handleCreateMarker(Store, marker, NoFailure)) :
                    x.at <= 1 /\ ~x.commit} :
        Serve("create_marker", handleCreateMarker(Store, marker, f),
              marker.flight_id, marker.label, marker.time_seconds, 0)

\* Bodies of POST /data-analysis/trim-markers: the start of the trim at 0.5 s,
\* its end at 1.5 s without label, a kind that is no trim kind, and a body
\* without flight_id.
TrimMarkerRequests ==
    {[flight_id |-> 1, type |-> "trim_start", time |-> 1000, label |-> "s"],
     [flight_id |-> 1, type |-> "trim_end", time |-> 3000, label |-> ""],
     [flight_id |-> 1, type |-> "regular", time |-> 1000, label |-> "s"],
     [flight_id |-> 0, type |-> "trim_start", time |-> 1000, label |-> "s"]}

\* The failures that can strike a single statement on mainDB.
StatementFailuresOf(r) == {f \in FailuresOf(r) : f.at <= 1 /\ ~f.commit}

\* POST /data-analysis/trim-markers
CreateTrimMarker ==
    \E request \in TrimMarkerRequests :
      \E f \in StatementFailuresOf(handleCreateTrimMarker(Store, request, NoFailure)) :
        Serve("create_trim_marker", handleCreateTrimMarker(Store, request, f),
              request.flight_id, request.label, request.time, 0)

\* DELETE /data-analysis/markers?id=
DeleteMarker ==
    \E markerId \in {NoID} \cup 1..MaxMarkerSeq :
      \E f \in StatementFailuresOf(handleDeleteMarker(Store, markerId, NoFailure)) :
        /\ Apply(handleDeleteMarker(Store, markerId, f))
        /\ last' = [Served("delete_marker", handleDeleteMarker(Store, markerId, f),
                           0, "", 0, 0) EXCEPT !.markerId = markerId]
        /\ UNCHANGED tempDir

\* DELETE /data-analysis/trim-markers?flightId=
DeleteTrimMarkers ==
    \E flightId \in FlightIDs :
      \E f \in StatementFailuresOf(handleDeleteTrimMarkers(Store, flightId, NoFailure)) :
        Serve("delete_trim_markers", handleDeleteTrimMarkers(Store, flightId, f),
              flightId, "", 0, 0)

Next ==
    \/ Import
    \/ ImportCSV
    \/ Duplicate
    \/ Trim
    \/ Delete
    \/ DeleteAgain
    \/ CreateMarker
    \/ CreateTrimMarker
    \/ DeleteMarker
    \/ DeleteTrimMarkers

Spec == Init /\ [][Next]_vars

(***************************************************************************)
(* Startup.  The program starts on whatever database file it finds at     *)
(* mainDatabasePath, sets the schema up and serves requests, or exits.    *)
(***************************************************************************)
\* The schema of a logbook file: the baseline script and nothing else.
BaselineSchema == ExecScript(BeginDDL(EmptySchema), BaselineScript, 0).schema

\* The schema of the store before markers had a type: the baseline and the
\* markers table with its first two indexes.
UntypedMarkersSchema ==
    [BaselineSchema EXCEPT
        !.tables = @ \cup {"markers"},
        !.indexes = @ \cup {"markers_flight_id_idx", "markers_time_idx"}]

StoredFlight == [id |-> 1, title |-> "A", start |-> 1, data |-> "d10"]

\* The files the program may find: none (SQLite creates an empty one), a
\* logbook with a flight, and a store of the version before marker types
\* with a flight and a marker.
DatabaseFiles ==
    {[schema |-> EmptySchema, db |-> EmptyStore],
     [schema |-> BaselineSchema, db |-> [EmptyStore EXCEPT !.flight = {StoredFlight}]],
     [schema |-> UntypedMarkersSchema,
      db |-> [EmptyStore EXCEPT
                 !.flight = {StoredFlight},
                 !.markers = {[id |-> 1, flight_id |-> 1, time_seconds |-> 2000,
                               label |-> "m"]},
                 !.markerSeq = 1]]}

InitStartup ==
    \E file \in DatabaseFiles :
        /\ schema = file.schema
        /\ flight = file.db.flight /\ aircraft = file.db.aircraft
        /\ position = file.db.position /\ attitude = file.db.attitude
        /\ engine = file.db.engine /\ markers = file.db.markers
        /\ markerSeq = file.db.markerSeq
        /\ last = NoOp
        /\ served = 0
        /\ running = FALSE
        /\ tempDir = {}
        /\ Quiet

\* ADD COLUMN type ... DEFAULT 'regular': the rows that were in the table
\* read 'regular' in the new column.
WithTypeColumn(rows) ==
    {[x \in DOMAIN m \cup {"type"} |-> IF x = "type" THEN "regular" ELSE m[x]] :
        m \in rows}

\* Init() of the package for the result r of InitMainDatabase: log.Fatalf
\* ends the process on an error.
StartWith(r) ==
    /\ schema' = r.schema
    /\ running' = (r.res = "ok")
    /\ markers' = IF /\ <<"markers", "type">> \in r.schema.columns
                     /\ <<"markers", "type">> \notin schema.columns
                  THEN WithTypeColumn(markers)
                  ELSE markers
    /\ last' = [Served("Init", r, 0, "", 0, 0) EXCEPT !.ddlFailed = r.failed]
    /\ UNCHANGED <<flight, aircraft, position, attitude, engine, markerSeq,
                   served, tempDir, calls, locks, gps, clock>>

\* The program is started.
Start ==
    /\ ~running
    /\ \E failAt \in DDLFailPoints :
          StartWith(InitMainDatabase(createMainDatabaseSchema(schema, failAt)))

\* The program is stopped.
Stop ==
    /\ running
    /\ running' = FALSE
    /\ UNCHANGED <<flight, aircraft, position, attitude, engine, markers,
                   markerSeq, last, served, schema, tempDir, calls, locks,
                   gps, clock>>

NextStartup ==
    \/ Start
    \/ Stop

SpecStartup == InitStartup /\ [][NextStartup]_vars

(***************************************************************************)
(* Header detection on its own: a row is drawn and tested.                *)
(***************************************************************************)
MaxColumns == 4

\* The rows of at most MaxColumns columns.
HeaderRows ==
    UNION {[1..n -> ColumnNames] : n \in 0..MaxColumns}

InitHeaders ==
    /\ \E record \in HeaderRows : last = [NoOp EXCEPT !.source = record]
    /\ flight = {} /\ aircraft = {} /\ position = {} /\ attitude = {}
    /\ engine = {} /\ markers = {} /\ markerSeq = 0
    /\ served = 0
    /\ schema = FullSchema
    /\ running = TRUE
    /\ tempDir = {}
    /\ Quiet

\* containsFlightDataHeaders(record) is called on the row.
TestHeaders ==
    /\ last.op = "init"
    /\ last' = [last EXCEPT
                   !.op = "containsFlightDataHeaders",
                   !.res = IF containsFlightDataHeaders(last.source)
                           THEN "header" ELSE "no_header"]
    /\ UNCHANGED <<flight, aircraft, position, attitude, engine, markers,
                   markerSeq, served, schema, running, tempDir, calls,
                   locks, gps, clock>>

NextHeaders == TestHeaders

SpecHeaders == InitHeaders /\ [][NextHeaders]_vars

(***************************************************************************)
(* Upload handler.  Every request is an upload; the files are CSV files   *)
(* with well-formed and with defective rows, database files and a file of *)
(* another format.                                                         *)
(***************************************************************************)
SeparatorRow == <<<<"s", "e", "p", "=", ",">>>>
CommentRow == <<<<"#">>>>
FlightHeader == <<ColTime, ColAltitude, ColLongitude>>
UpperCaseHeader == <<ColTIME, ColAltitude, ColLongitude>>

\* A field that is neither a number nor an instant.
Junk == <<"x">>

\* Three rows 0.5 s and 0.5005 s apart.
GoodCSV ==
    <<SeparatorRow, CommentRow, FlightHeader,
      <<Decimal(5000), Decimal(3), Decimal(8)>>,
      <<Decimal(6000), Decimal(4), Decimal(8)>>,
      <<Decimal(7001), Decimal(5), Decimal(9)>>>>

\* The second row has a time that does not parse.
BadTimeCSV ==
    <<SeparatorRow, CommentRow, FlightHeader,
      <<Decimal(5000), Decimal(3), Decimal(8)>>,
      <<Junk, Decimal(4), Decimal(8)>>>>

\* The only row has a time that does not parse.
OneBadTimeCSV ==
    <<SeparatorRow, CommentRow, FlightHeader,
      <<Junk, Decimal(4), Decimal(8)>>>>

\* A row of one field, and a row with an altitude that does not parse.
RaggedCSV ==
    <<SeparatorRow, CommentRow, FlightHeader,
      <<Decimal(5000), Decimal(3), Decimal(8)>>,
      <<Decimal(5500)>>,
      <<Decimal(6000), Junk, Decimal(8)>>>>

\* The time column is named TIME.
UpperCaseCSV ==
    <<SeparatorRow, CommentRow, UpperCaseHeader,
      <<Decimal(5000), Decimal(3), Decimal(8)>>,
      <<Decimal(6000), Decimal(4), Decimal(8)>>>>

\* Only rows of the wrong field count below the header.
NoRecordsCSV ==
    <<SeparatorRow, CommentRow, FlightHeader, <<Decimal(5000)>>>>

NoHeaderCSV == <<SeparatorRow, CommentRow, <<ColSpeed, ColLat>>>>

TooShortCSV == <<SeparatorRow, FlightHeader>>

\* The header is one of the two rows that the parser skips.
HeaderSkippedCSV ==
    <<SeparatorRow, FlightHeader, <<Decimal(5000), Decimal(3), Decimal(8)>>>>

CSVContents ==
    {GoodCSV, BadTimeCSV, OneBadTimeCSV, RaggedCSV, UpperCaseCSV, NoRecordsCSV,
     NoHeaderCSV, TooShortCSV, HeaderSkippedCSV}

\* "a.csv", "uploaded_a_1.CSV", "log.db", "notes.txt"
NameCSV == <<"a", ".", "c", "s", "v">>
NameUpperCSV ==
    <<"u", "p", "l", "o", "a", "d", "e", "d", "_", "a", "_", "1", ".", "C", "S", "V">>
NameDB == <<"l", "o", "g", ".", "d", "b">>
NameTxt == <<"n", "o", "t", "e", "s", ".", "t", "x", "t">>

Uploads ==
    {[Filename |-> NameCSV, records |-> records, sourceDB |-> NotADatabase] :
        records \in CSVContents}
      \cup {[Filename |-> NameUpperCSV, records |-> GoodCSV, sourceDB |-> NotADatabase]}
      \cup {[Filename |-> NameDB, records |-> <<>>, sourceDB |-> sourceDB] :
               sourceDB \in SourceDBs}
      \cup {[Filename |-> NameTxt, records |-> <<>>, sourceDB |-> NotADatabase]}

\* The failures of the file system that can strike the upload: none if the
\* handler answers before it creates the file.
IOFailuresOf(upload) ==
    IF ToLower(Ext(upload.Filename)) \in ValidExtensions THEN IOFailures
    ELSE {"none"}

\* The request with the answer of the handler.
Uploaded(h, upload, io, tempPath) ==
    /\ Apply(h.r)
    /\ tempDir' = h.temp
    /\ last' = [Served("upload", h.r, 0, "", 0, 0) EXCEPT
                   !.source = [upload |-> upload, io |-> io, tempPath |-> tempPath]]

\* POST /data-analysis/upload.  The time of the request is the number of
\* the requests served before it.
Upload ==
    \E upload \in Uploads :
      \E io \in IOFailuresOf(upload) :
        \E f \in IF io = "none"
                 THEN FailuresOf(importUpload(Store, upload, NoFailure))
                 ELSE {NoFailure} :
          Uploaded(handleDatabaseUpload(Store, tempDir,
                                        tempPathOf(served, upload.Filename),
                                        upload, io, f),
                   upload, io, tempPathOf(served, upload.Filename))

NextUpload == Upload

SpecUpload == Init /\ [][NextUpload]_vars

(***************************************************************************)
(* GPS relay: the listener and the HTTP handlers, step by step.           *)
(***************************************************************************)
\* The store and the requests on it stay as they are.
StoreIdle ==
    UNCHANGED <<flight, aircraft, position, attitude, engine, markers,
                markerSeq, last, served, schema, running, tempDir, calls,
                locks, clock>>

\* A step of startUDPListener; at ReadFromUDP a datagram arrives.
Listen ==
    /\ \E packet \in Packets :
         /\ gps.listener.pc # "read" => packet = gps.listener.packet
         /\ ListenerWaitsFor(gps) # "" => CanLock(gps, ListenerWaitsFor(gps))
         /\ gps' = ListenerStep(gps, packet)
    /\ StoreIdle

\* A request arrives and a goroutine starts its handler.
Request ==
    /\ \E h \in Handlers, call \in HandlerCalls :
         /\ gps.http[h] = Waiting
         /\ gps' = [gps EXCEPT !.http[h] = call]
    /\ StoreIdle

\* A step of a handler.
Handle ==
    /\ \E h \in Handlers :
         /\ gps.http[h] # Waiting
         /\ gps.http[h].pc = "lock" =>
                CanLock(gps, MutexOf[HandlerVar[gps.http[h].op]])
         /\ gps' = HandlerStep(gps, h)
    /\ StoreIdle

NextGPS == Listen \/ Request \/ Handle

SpecGPS == Init /\ [][NextGPS]_vars

(***************************************************************************)
(* Analysis: flights are imported, read for the charts and trimmed.       *)
(***************************************************************************)
\* A formation flight: two aircraft of one type under one tail number, and
\* a third of the same type without tail number.
Formation ==
    [tables |-> RequiredTables,
     flight |-> {[id |-> 30, title |-> "F", start |-> 3, data |-> "d30"]},
     aircraft |->
        {[id |-> 1, flight_id |-> 30, seq_nr |-> 1, type |-> "DR40",
          tail_number |-> "D-EABC"],
         [id |-> 2, flight_id |-> 30, seq_nr |-> 2, type |-> "DR40",
          tail_number |-> "D-EABC"],
         [id |-> 3, flight_id |-> 30, seq_nr |-> 3, type |-> "DR40",
          tail_number |-> ""]},
     position |->
        {[aircraft_id |-> 1, timestamp |-> 5000, data |-> "p1"],
         [aircraft_id |-> 1, timestamp |-> 5500, data |-> "p2"],
         [aircraft_id |-> 2, timestamp |-> 5000, data |-> "p3"],
         [aircraft_id |-> 3, timestamp |-> 5200, data |-> "p4"]},
     attitude |-> {},
     engine |->
        {[aircraft_id |-> 1, timestamp |-> 5000, data |-> "e1"],
         [aircraft_id |-> 2, timestamp |-> 5100, data |-> "e2"]}]

AnalysedDBs == {Logbook, LogbookNoEngine, Formation}

ImportForAnalysis ==
    \E sourceDB \in AnalysedDBs :
      \E f \in FailuresOf(ImportFlightsFromDatabase(Store, sourceDB, NoFailure)) :
        /\ Apply(ImportFlightsFromDatabase(Store, sourceDB, f))
        /\ last' = [Served("import", ImportFlightsFromDatabase(Store, sourceDB, f),
                           0, "", 0, 0) EXCEPT !.source = sourceDB.tables]
        /\ UNCHANGED tempDir

\* GET /data-analysis/flight-data?flightId=
GetFlightData ==
    \E flightID \in FlightIDs :
      /\ Apply(Rejected(Store, IF getFlightDataFromMainDB(Store, flightID).err
                               THEN "error" ELSE "ok"))
      /\ last' = [Served("flight_data",
                         Rejected(Store,
                                  IF getFlightDataFromMainDB(Store, flightID).err
                                  THEN "error" ELSE "ok"),
                         flightID, "", 0, 0)
                    EXCEPT !.flightData = getFlightDataFromMainDB(Store, flightID)]
      /\ UNCHANGED tempDir

NextAnalysis == ImportForAnalysis \/ ImportCSV \/ GetFlightData \/ Trim

SpecAnalysis == Init /\ [][NextAnalysis]_vars

(***************************************************************************)
(* Statistics of flight data that was read.                                *)
(***************************************************************************)
MaxPoints == 3

\* Airspeeds of 100, 0 and -50; altitudes (indicated, MSL, pressure) of
\* 100, 0, -50 and 30.
Airspeeds == {200, 0, -100}
AltitudeTriples == {<<200, 0, -100>>, <<0, -100, 200>>, <<-100, 200, 0>>,
                    <<60, 60, 60>>}

PositionPoints ==
    {[Airspeed |-> v, IndicatedAltitude |-> a[1], Altitude |-> a[2],
      PressureAltitude |-> a[3]] : v \in Airspeeds, a \in AltitudeTriples}

SeriesUpTo(n) == UNION {[1..k -> PositionPoints] : k \in 0..n}

\* The series of a second aircraft: none, one without points, one of two
\* points.
OtherSeries ==
    {EmptyMap,
     [l \in {"A320 (D-AIAB)"} |-> <<>>],
     [l \in {"A320 (D-AIAB)"} |->
        <<[Airspeed |-> 200, IndicatedAltitude |-> 60, Altitude |-> -100,
           PressureAltitude |-> 0],
          [Airspeed |-> 60, IndicatedAltitude |-> 0, Altitude |-> -100,
           PressureAltitude |-> 0]>>]}

FlightDataOf(series, other) ==
    [err |-> FALSE, Flight |-> {[ID |-> 1, Title |-> "A"]},
     PositionData |-> MapPut(other, "C172", series), EngineData |-> EmptyMap]

InitStatistics ==
    /\ flight = {} /\ aircraft = {} /\ position = {} /\ attitude = {}
    /\ engine = {} /\ markers = {} /\ markerSeq = 0
    /\ \E series \in SeriesUpTo(MaxPoints), other \in OtherSeries :
          last = [NoOp EXCEPT !.flightData = FlightDataOf(series, other)]
    /\ served = 0
    /\ schema = FullSchema
    /\ running = TRUE
    /\ tempDir = {}
    /\ Quiet

\* GET /data-analysis/statistics, from the flight data on.
Statistics ==
    /\ last.op = "init"
    /\ last' = [last EXCEPT !.op = "statistics",
                            !.statistics = CalculateFlightStatistics(last.flightData)]
    /\ UNCHANGED <<flight, aircraft, position, attitude, engine, markers,
                   markerSeq, served, schema, running, tempDir, calls, locks,
                   gps, clock>>

NextStatistics == Statistics

SpecStatistics == InitStatistics /\ [][NextStatistics]_vars

(***************************************************************************)
(* Concurrent requests.  Every request runs in a goroutine of its own and *)
(* every transaction on a connection of its own.  The connections share   *)
(* the database file under the locks of SQLite: a transaction holds       *)
(* SHARED from its first read and RESERVED from its first write to its    *)
(* end, one connection at most holds RESERVED, and a commit needs that no *)
(* other connection holds SHARED.  A statement that cannot get its lock   *)
(* fails with SQLITE_BUSY.  A query on the pool reads the committed store.*)
(***************************************************************************)
MaxClock == 1

\* The flights that the store holds at most while requests run side by side.
MaxStored == 3

\* The files that are uploaded: two database files under one name and a
\* CSV file.
ConcurrentUploads ==
    [logbook |-> [Filename |-> NameDB, records |-> <<>>, sourceDB |-> Logbook],
     formation |-> [Filename |-> NameDB, records |-> <<>>, sourceDB |-> Formation],
     csv |-> [Filename |-> NameCSV, records |-> GoodCSV, sourceDB |-> NotADatabase]]

ConcurrentRequests ==
    {[IdleCall EXCEPT !.op = "upload", !.pc = "save", !.upload = u] :
        u \in DOMAIN ConcurrentUploads}
      \cup {[IdleCall EXCEPT !.op = "duplicate", !.pc = "check", !.flightID = 1,
                             !.title = "T"],
            [IdleCall EXCEPT !.op = "trim", !.pc = "check", !.flightID = 1,
                             !.title = "T", !.start = 1001, !.end = 3001],
            [IdleCall EXCEPT !.op = "delete", !.pc = "check", !.flightID = 1]}

InFlight == {c \in Callers : calls[c].op # ""}

At(c, ops, pc) == calls[c].op \in ops /\ calls[c].pc = pc

StoreSame ==
    UNCHANGED <<flight, aircraft, position, attitude, engine, markers, markerSeq>>

StoreBecomes(db) ==
    /\ flight' = db.flight
    /\ aircraft' = db.aircraft
    /\ position' = db.position
    /\ attitude' = db.attitude
    /\ engine' = db.engine
    /\ markers' = db.markers
    /\ markerSeq' = db.markerSeq

\* SQLITE_BUSY, or any other error of a statement: the deferred Rollback
\* ends the transaction.
Failed(call) == [call EXCEPT !.r = Rejected(EmptyStore, "error")]

Released(l, c) ==
    [shared |-> l.shared \ {c}, reserved |-> IF l.reserved = c THEN 0 ELSE l.reserved]

\* The first write of a transaction takes RESERVED.
CanWrite(l, c) == l.reserved \in {0, c}

\* A commit that takes no lock.
CommitUnlocked(l, c) == TRUE

\* tx.Commit() takes EXCLUSIVE: no other connection reads.
CanCommit(l, c) == l.shared \subseteq {c}

\* A request arrives and its handler starts.
Arrive ==
    \E c \in Callers, request \in ConcurrentRequests :
        /\ running
        /\ calls[c].op = "" /\ \A d \in Callers : d < c => calls[d].op # ""
        /\ served + Cardinality(InFlight) < MaxRequests
        /\ calls' = [calls EXCEPT ![c] = request]
        /\ StoreSame
        /\ UNCHANGED <<last, served, schema, running, tempDir, locks, gps, clock>>

\* handleDatabaseUpload names the temporary file by the second of the clock
\* and the name of the upload, creates it (or truncates the file that has
\* the name) and copies the upload into it.
Save ==
    \E c \in Callers :
        /\ At(c, {"upload"}, "save")
        /\ tempDir' = tempDir \cup
              {tempPathOf(clock, ConcurrentUploads[calls[c].upload].Filename)}
        /\ calls' = [d \in Callers |->
              IF d = c
              THEN [calls[c] EXCEPT
                      !.pc = "import",
                      !.tempPath = tempPathOf(clock,
                                       ConcurrentUploads[calls[c].upload].Filename),
                      !.file = calls[c].upload]
              ELSE IF calls[d].tempPath =
                         tempPathOf(clock, ConcurrentUploads[calls[c].upload].Filename)
                   THEN [calls[d] EXCEPT !.file = calls[c].upload]
                   ELSE calls[d]]
        /\ StoreSame
        /\ UNCHANGED <<last, served, schema, running, locks, gps, clock>>

\* The import opens the file at tempPath, begins its transaction and
\* inserts the first flight.
ImportFile ==
    \E c \in Callers :
        /\ At(c, {"upload"}, "import")
        /\ IF calls[c].file = "" \/ ~CanWrite(locks, c)
           THEN /\ calls' = [calls EXCEPT ![c] = [Failed(@) EXCEPT !.pc = "remove"]]
                /\ UNCHANGED locks
           ELSE /\ calls' = [calls EXCEPT ![c] =
                               [@ EXCEPT !.pc = "commit", !.upload = calls[c].file,
                                         !.snapshot = Store]]
                /\ locks' = [shared |-> locks.shared \cup {c}, reserved |-> c]
        /\ StoreSame
        /\ UNCHANGED <<last, served, schema, running, tempDir, gps, clock>>

\* The checks of a handler before its transaction; the lookups of the title
\* and of the flight are queries on the pool.
handlerChecks(call, db) ==
    CASE call.op = "duplicate" ->
            IF call.flightID = 0 \/ call.title = "" THEN "bad_request"
            ELSE IF flightTitleExists(db, call.title) THEN "title_exists"
            ELSE ""
      [] call.op = "trim" ->
            IF call.flightID = 0 \/ call.title = "" THEN "bad_request"
            ELSE IF RangeNotIncreasing(call.start, call.end) THEN "bad_range"
            ELSE IF RangeTooSmall(call.start, call.end) THEN "range_too_small"
            ELSE IF flightTitleExists(db, call.title) THEN "title_exists"
            ELSE ""
      [] OTHER ->
            IF getFlightByIDFromMainDB(db, call.flightID) = {} THEN "not_found"
            ELSE ""

Check ==
    \E c \in Callers :
        /\ At(c, {"duplicate", "trim", "delete"}, "check")
        /\ calls' = [calls EXCEPT ![c] =
              IF handlerChecks(calls[c], Store) # ""
              THEN [@ EXCEPT !.pc = "return",
                             !.r = Rejected(EmptyStore, handlerChecks(calls[c], Store))]
              ELSE [@ EXCEPT !.pc = "begin"]]
        /\ StoreSame
        /\ UNCHANGED <<last, served, schema, running, tempDir, locks, gps, clock>>

\* mainDB.Begin() and the first statement of the transaction, a SELECT: of
\* the flight row in duplicateFlightRecord, of the aircraft ids in
\* DeleteFlight.
BeginTx ==
    \E c \in Callers :
        /\ At(c, {"duplicate", "trim", "delete"}, "begin")
        /\ calls' = [calls EXCEPT ![c] = [@ EXCEPT !.pc = "write", !.snapshot = Store]]
        /\ locks' = [locks EXCEPT !.shared = @ \cup {c}]
        /\ StoreSame
        /\ UNCHANGED <<last, served, schema, running, tempDir, gps, clock>>

\* The first row the transaction reads is missing.
NothingToCopy(call) ==
    /\ call.op \in {"duplicate", "trim"}
    /\ duplicateFlightRecord(Begin(call.snapshot), call.flightID, call.title,
                             NoFailure).t.err

\* The first INSERT or DELETE of the transaction.
Write ==
    \E c \in Callers :
        /\ At(c, {"duplicate", "trim", "delete"}, "write")
        /\ IF NothingToCopy(calls[c]) \/ ~CanWrite(locks, c)
           THEN /\ calls' = [calls EXCEPT ![c] = [Failed(@) EXCEPT !.pc = "return"]]
                /\ locks' = Released(locks, c)
           ELSE /\ calls' = [calls EXCEPT ![c] =
                               [@ EXCEPT !.pc = IF calls[c].op = "delete"
                                                THEN "commit" ELSE "aircraft"]]
                /\ locks' = [locks EXCEPT !.reserved = c]
        /\ StoreSame
        /\ UNCHANGED <<last, served, schema, running, tempDir, gps, clock>>

\* Step 2 of duplicateFlight and of trimFlight: the aircraft of the flight,
\* by a query on the pool.
ReadAircraft ==
    \E c \in Callers :
        /\ At(c, {"duplicate", "trim"}, "aircraft")
        /\ calls' = [calls EXCEPT ![c] =
              [@ EXCEPT !.pc = "commit",
                        !.aircraft = getAircraftByFlightIDFromMainDB(Store, calls[c].flightID)]]
        /\ StoreSame
        /\ UNCHANGED <<last, served, schema, running, tempDir, locks, gps, clock>>

\* The rest of the transaction on its own view of the store, and what it
\* returns.
Finished(call) ==
    CASE call.op = "upload" ->
            importUpload(call.snapshot, ConcurrentUploads[call.upload], NoFailure)
      [] call.op = "duplicate" ->
            duplicateAircraftOf(call.snapshot,
                duplicateFlightRecord(Begin(call.snapshot), call.flightID,
                                      call.title, NoFailure),
                call.aircraft, call.flightID, NoFailure)
      [] call.op = "trim" ->
            trimAircraftOf(call.snapshot,
                duplicateFlightRecord(Begin(call.snapshot), call.flightID,
                                      call.title, NoFailure),
                call.aircraft, call.flightID, call.start, call.end, NoFailure)
      [] OTHER ->
            deleteResponse(DeleteFlight(call.snapshot, call.flightID, NoFailure))

AfterCommit(call) == IF call.op = "upload" THEN "remove" ELSE "return"

\* The remaining statements and tx.Commit(), or the Rollback after an error
\* or after a commit that found the file busy.
CommitTx ==
    \E c \in Callers :
        /\ At(c, {"upload", "duplicate", "trim", "delete"}, "commit")
        /\ IF Finished(calls[c]).res = "ok" /\ CanCommit(locks, c)
           THEN /\ Cardinality(Finished(calls[c]).db.flight) <= MaxStored
                /\ StoreBecomes(Finished(calls[c]).db)
                /\ calls' = [calls EXCEPT ![c] =
                                [@ EXCEPT !.pc = AfterCommit(calls[c]),
                                          !.r = [Finished(calls[c]) EXCEPT
                                                    !.db = EmptyStore]]]
           ELSE /\ StoreSame
                /\ calls' = [calls EXCEPT ![c] =
                                [Failed(@) EXCEPT !.pc = AfterCommit(calls[c])]]
        /\ locks' = Released(locks, c)
        /\ UNCHANGED <<last, served, schema, running, tempDir, gps, clock>>

\* os.Remove(tempPath)
Remove ==
    \E c \in Callers :
        /\ At(c, {"upload"}, "remove")
        /\ tempDir' = tempDir \ {calls[c].tempPath}
        /\ calls' = [d \in Callers |->
              IF d = c THEN [calls[c] EXCEPT !.pc = "return", !.file = ""]
              ELSE IF calls[d].tempPath = calls[c].tempPath
                   THEN [calls[d] EXCEPT !.file = ""]
                   ELSE calls[d]]
        /\ StoreSame
        /\ UNCHANGED <<last, served, schema, running, locks, gps, clock>>

\* The handler answers.
ReturnCall ==
    \E c \in Callers :
        /\ calls[c].pc = "return"
        /\ last' = Served(calls[c].op, calls[c].r, calls[c].flightID,
                          calls[c].title, calls[c].start, calls[c].end)
        /\ served' = served + 1
        /\ calls' = [calls EXCEPT ![c] = IdleCall]
        /\ StoreSame
        /\ UNCHANGED <<schema, running, tempDir, locks, gps, clock>>

\* A second passes.
Tick ==
    /\ clock < MaxClock
    /\ clock' = clock + 1
    /\ StoreSame
    /\ UNCHANGED <<last, served, schema, running, tempDir, calls, locks, gps>>

NextConcurrent ==
    \/ Arrive
    \/ Save
    \/ ImportFile
    \/ Check
    \/ BeginTx
    \/ Write
    \/ ReadAircraft
    \/ CommitTx
    \/ Remove
    \/ ReturnCall
    \/ Tick

SpecConcurrent == Init /\ [][NextConcurrent]_vars

-----------------------------------------------------------------------------
\* Properties.

\* The store after the step.
StoreAfter ==
    [flight |-> flight', aircraft |-> aircraft', position |-> position',
     attitude |-> attitude', engine |-> engine', markers |-> markers',
     markerSeq |-> markerSeq']

AircraftOf(db, flightID) == {a \in db.aircraft : a.flight_id = flightID}
Timestamps(rows) == {r.timestamp : r \in rows}
MinTimestamp(rows) == CHOOSE x \in Timestamps(rows) : \A y \in Timestamps(rows) : x <= y
MaxTimestamp(rows) == CHOOSE x \in Timestamps(rows) : \A y \in Timestamps(rows) : x >= y

\* The last request copied flight last.flightId to the new flight NewFlightID.
Duplicated == last.op = "duplicate" /\ last.res = "ok"
Trimmed == last.op = "trim" /\ last.res = "ok"
NewFlightID == last.ids[1].ID

\* The copy, under the new flight, of aircraft a of the source flight.
CopyOf(a) == {b \in AircraftOf(Store, NewFlightID) : b.seq_nr = a.seq_nr}

C2_DuplicateIsFaithful ==
    Duplicated =>
        /\ Cardinality({fl \in flight : fl.id = NewFlightID}) = 1
        /\ NewFlightID # last.flightId
        /\ Cardinality(AircraftOf(Store, NewFlightID))
             = Cardinality(AircraftOf(Store, last.flightId))
        /\ \A a \in AircraftOf(Store, last.flightId) :
             /\ Cardinality(CopyOf(a)) = 1
             /\ \A b \in CopyOf(a), table \in Telemetry :
                  /\ Timestamps(Series(Store, table, b.id))
                       = Timestamps(Series(Store, table, a.id))
                  /\ Cardinality(Series(Store, table, b.id))
                       = Cardinality(Series(Store, table, a.id))
        /\ Cardinality(MarkersOf(Store, NewFlightID))
             = Cardinality(MarkersOf(Store, last.flightId))
        /\ \A m \in markers :
             Cardinality({x \in MarkersOf(Store, NewFlightID)
                             : x.time_seconds = m.time_seconds})
             = Cardinality({x \in MarkersOf(Store, last.flightId)
                             : x.time_seconds = m.time_seconds})

\* C3: import, CSV import, duplicate and trim only add rows: whether they
\* succeed or fail, every row that was in a table before is in it afterwards.
C3_OnlyAddRows ==
    [][last'.op \in {"import", "import_csv", "duplicate", "trim"} =>
        \A table \in Tables : Store[table] \subseteq StoreAfter[table]]_vars

\* A trim that copied a flight into a store that held rows of every table.
C3_Witness ==
    /\ Trimmed
    /\ MarkersOf(Store, last.flightId) # {}
    /\ \A table \in Tables : Store[table] # {}

\* The answers of the handlers that are 400 Bad Request.
ClientErrors == {"bad_request", "bad_range", "range_too_small"}

\* C4 as stated: a duplicate or trim request whose new title is the title of
\* a stored flight gets the title-exists error, starts no transaction and
\* leaves the store unchanged.
C4_TitleExistsAlways ==
    [][(last'.op \in {"duplicate", "trim"}
            /\ \E fl \in flight : fl.title = last'.title)
        => (last'.res = "title_exists" /\ ~last'.tx /\ StoreAfter = Store)]_vars

\* C4: a duplicate or trim request whose new title is the title of a stored
\* flight is rejected without a transaction and leaves the store unchanged;
\* the rejection is the title-exists error when the request names a flight
\* id and a title and, for trim, a range of at least one second, and the
\* error of the earlier parameter or range check otherwise.
C4_TitleExistsRejected ==
    [][(last'.op \in {"duplicate", "trim"}
            /\ \E fl \in flight : fl.title = last'.title)
        => /\ last'.res \in ClientErrors \cup {"title_exists"}
           /\ ~last'.tx
           /\ StoreAfter = Store
           /\ last'.res = "title_exists" <=>
                 /\ last'.flightId # 0
                 /\ last'.title # ""
                 /\ last'.op = "trim" =>
                        last'.end - last'.start >= MinTrimSeconds * Resolution]_vars

\* A trim request rejected for its title.
C4_Witness ==
    /\ last.op = "trim" /\ last.res = "title_exists"
    /\ \E fl \in flight : fl.title = last.title /\ fl.id # last.flightId

\* C5: a trim request with end <= start or with end - start < 1.0 s is
\* rejected as a client error before trimFlight runs, and a request with
\* end - start >= 1.0 s is never rejected for its range.
C5_TrimRangeChecked ==
    [][last'.op = "trim" =>
        /\ (last'.end <= last'.start \/ last'.end - last'.start < Resolution)
              => (last'.res \in ClientErrors /\ ~last'.tx /\ StoreAfter = Store)
        /\ last'.end - last'.start >= Resolution
              => last'.res \notin {"bad_range", "range_too_small"}]_vars

\* A request for an existing flight and a free title, rejected for a range
\* of half a second.
C5_Witness ==
    /\ last.op = "trim" /\ last.res = "range_too_small"
    /\ \E fl \in flight : fl.id = last.flightId
    /\ \A fl \in flight : fl.title # last.title

\* The rows of a source series at least lo and at most hi ticks after the
\* series' minimum.
InRealWindow(src, lo, hi) ==
    {r \in src : /\ lo * MsPerSecond <= (r.timestamp - MinTimestamp(src)) * Resolution
                 /\ (r.timestamp - MinTimestamp(src)) * Resolution <= hi * MsPerSecond}

\* The rows of a source series whose distance from the series' minimum is
\* between the whole milliseconds of lo and of hi.
InTruncatedWindow(src, lo, hi) ==
    {r \in src : /\ (lo * MsPerSecond) \div Resolution <= r.timestamp - MinTimestamp(src)
                 /\ r.timestamp - MinTimestamp(src) <= (hi * MsPerSecond) \div Resolution}

\* The source series and their copies after a trim or a duplicate.
CopiedSeries ==
    {[src |-> Series(Store, table, a.id), copy |-> Series(Store, table, b.id)] :
        <<a, b, table>> \in
            {x \in AircraftOf(Store, last.flightId)
                     \X AircraftOf(Store, NewFlightID) \X Telemetry :
                x[1].seq_nr = x[2].seq_nr}}

\* C6 as stated: a trim copies, per series, exactly the source rows with
\* seriesMin + start*1000 <= t <= seriesMin + end*1000.
C6_TrimCopiesRealWindow ==
    Trimmed =>
        \A s \in CopiedSeries :
            /\ Cardinality(s.copy)
                 = Cardinality(InRealWindow(s.src, last.start, last.end))
            /\ {r.data : r \in s.copy}
                 = {r.data : r \in InRealWindow(s.src, last.start, last.end)}

\* C6: a trim copies, per series, exactly the source rows with
\* seriesMin + trunc(start*1000) <= t <= seriesMin + trunc(end*1000), where
\* trunc drops the fraction of a millisecond: as many rows as the source has
\* there, none from outside, none from inside left out.
C6_TrimCopiesTruncatedWindow ==
    Trimmed =>
        /\ \A a \in AircraftOf(Store, last.flightId) : Cardinality(CopyOf(a)) = 1
        /\ \A s \in CopiedSeries :
            /\ Cardinality(s.copy)
                 = Cardinality(InTruncatedWindow(s.src, last.start, last.end))
            /\ {r.data : r \in s.copy}
                 = {r.data : r \in InTruncatedWindow(s.src, last.start, last.end)}

\* A trim that copied a part of a series and left the rest out.
C6_Witness ==
    /\ Trimmed
    /\ \E s \in CopiedSeries :
          s.copy # {} /\ Cardinality(s.copy) < Cardinality(s.src)

\* C7 as stated: a trimmed series that is not empty starts at the minimum
\* of its source series and ends at most end - start seconds after it.
C7_TrimmedStartsAtSourceMin ==
    Trimmed =>
        \A s \in CopiedSeries :
            s.copy # {} =>
                /\ MinTimestamp(s.copy) = MinTimestamp(s.src)
                /\ (MaxTimestamp(s.copy) - MinTimestamp(s.src)) * Resolution
                     <= (last.end - last.start) * MsPerSecond

\* C7: every row of a trimmed series has a timestamp no earlier than the
\* minimum of its source series and at most trunc(end*1000) -
\* trunc(start*1000) milliseconds after it, and the trimmed series starts at
\* that minimum exactly when the source has a row at seriesMin +
\* trunc(start*1000).
C7_TrimmedWithinSourceMin ==
    Trimmed =>
        \A s \in CopiedSeries :
            /\ \A r \in s.copy :
                 /\ r.timestamp >= MinTimestamp(s.src)
                 /\ r.timestamp - MinTimestamp(s.src)
                      <= (last.end * MsPerSecond) \div Resolution
                         - (last.start * MsPerSecond) \div Resolution
            /\ (\E r \in s.copy : r.timestamp = MinTimestamp(s.src))
                 <=> \E r \in s.src :
                        r.timestamp - MinTimestamp(s.src)
                          = (last.start * MsPerSecond) \div Resolution

\* A trimmed series that starts after the minimum of its source.
C7_Witness ==
    /\ Trimmed
    /\ \E s \in CopiedSeries :
          s.copy # {} /\ MinTimestamp(s.copy) > MinTimestamp(s.src)

\* The markers of a flight as (offset - shift, label, kind) with the number
\* of markers of each.
MarkerBag(ms, shift) ==
    LET Key(m) == <<m.time_seconds - shift, m.label, m.type>>
    IN  [k \in {Key(m) : m \in ms} |-> Cardinality({m \in ms : Key(m) = k})]

\* C8: after a successful trim the markers of the new flight are the markers
\* of the source with start <= m <= end, each at m - start with its label and
\* kind, so every marker of the new flight has an offset in [0, end - start].
C8_TrimmedMarkers ==
    Trimmed =>
        /\ MarkerBag(MarkersOf(Store, NewFlightID), 0)
             = MarkerBag({m \in MarkersOf(Store, last.flightId) :
                            last.start <= m.time_seconds /\ m.time_seconds <= last.end},
                         last.start)
        /\ \A m \in MarkersOf(Store, NewFlightID) :
             0 <= m.time_seconds /\ m.time_seconds <= last.end - last.start

\* Delete requests; "DeleteFlight" is the call without the handler's lookup.
Deletes == {"delete", "DeleteFlight"}

\* C9: a successful DeleteFlight(F) removes flight F, its aircraft, the
\* position, attitude and engine rows of those aircraft and the markers of
\* F, and leaves every other row as it was.
C9_DeleteRemovesFlight ==
    [][(last'.op \in Deletes /\ last'.res = "ok") =>
        LET F == last'.flightId
            ids == {a.id : a \in AircraftOf(Store, F)}
        IN  /\ flight' = {fl \in flight : fl.id # F}
            /\ flight' # flight
            /\ aircraft' = {a \in aircraft : a.flight_id # F}
            /\ \A table \in Telemetry :
                 StoreAfter[table] = {r \in Store[table] : r.aircraft_id \notin ids}
            /\ markers' = {m \in markers : m.flight_id # F}]_vars

\* A delete that took a flight with its markers out of a store that keeps
\* another flight with its aircraft and telemetry.
C9_Witness ==
    /\ last.op = "delete" /\ last.res = "ok"
    /\ MarkersOf(Store, last.flightId) = {}
    /\ \E n \in 1..markerSeq : \A m \in markers : m.id # n
    /\ \A table \in Tables \ {"markers"} : Store[table] # {}

\* C10: DeleteFlight on a flight id that is not in the store leaves every
\* table as it was, the markers that carry that id included, and returns the
\* not-found error unless the database itself fails.
C10_DeleteMissingFlight ==
    [][(last'.op \in Deletes /\ \A fl \in flight : fl.id # last'.flightId) =>
        /\ StoreAfter = Store
        /\ last'.res \in {"not_found", "error"}
        /\ ~last'.injected => last'.res = "not_found"]_vars

\* DeleteFlight answered not-found after its transaction had deleted the
\* markers that carry the id, and the markers are in the store.
C10_Witness ==
    /\ last.op = "DeleteFlight" /\ last.res = "not_found" /\ last.wrote
    /\ MarkersOf(Store, last.flightId) # {}

\* C11: a duplicateFlight or trimFlight that fails at any step (the flight
\* row, an aircraft, a telemetry row, a marker or the commit) returns an
\* error and leaves every table of the store as it was before the call.
C11_DeriveAllOrNothing ==
    [][last'.op \in {"duplicate", "trim"} =>
        /\ last'.res # "ok" => StoreAfter = Store
        /\ last'.injected => last'.res = "error"]_vars

\* A trim that failed after its transaction had inserted rows.
C11_Witness ==
    /\ last.op = "trim" /\ last.res = "error" /\ last.wrote /\ last.injected
    /\ \E fl \in flight : fl.id = last.flightId

\* C12: every flight has at most one marker of kind trim_start and at most
\* one of kind trim_end.
C12_OneTrimMarkerPerKind ==
    \A m1, m2 \in markers :
        (m1.flight_id = m2.flight_id /\ m1.type = m2.type /\ m1.type \in TrimKinds)
            => m1 = m2

\* The program has run schema setup to its end without an error.
SetUp == last.op = "Init" /\ last.res = "ok"

\* The step is a start of the program.
Starting == ~running /\ last'.op = "Init"

\* C13: schema setup run again on a database it has set up returns no error,
\* executes no DDL statement and leaves every table, index, column and row
\* as it was.
C13_SetupIdempotent ==
    [][(SetUp /\ Starting) =>
        /\ last'.res = "ok"
        /\ ~last'.wrote /\ ~last'.ddlFailed
        /\ schema' = schema
        /\ StoreAfter = Store]_vars

\* A second setup of a store that holds a marker row and has its markers
\* table, type column and indicated_airspeed column.
C13_Witness ==
    /\ SetUp /\ ~last.wrote /\ running
    /\ markers # {}
    /\ "markers" \in schema.tables
    /\ {<<"markers", "type">>, <<"position", "indicated_airspeed">>}
          \subseteq schema.columns

\* The tables and columns of a complete schema.
Complete(sch) ==
    /\ FullSchema.tables \subseteq sch.tables
    /\ FullSchema.columns \subseteq sch.columns

\* C14: a start in which a DDL statement fails ends with an error of
\* InitMainDatabase and the program not running, and the program never runs
\* on a schema that lacks a table or a column.
C14_DDLErrorIsFatal ==
    [][Starting =>
        /\ last'.ddlFailed => (last'.res = "error" /\ ~running')
        /\ running' => Complete(schema')]_vars

\* The rows of a series without the aircraft they are attached to.
Unattached(rows) == {[timestamp |-> r.timestamp, data |-> r.data] : r \in rows}

\* The canonical aircraft that source aircraft a became under flight newID.
ImportOf(a, newID) ==
    {b \in AircraftOf(Store, newID) :
        b.seq_nr = a.seq_nr /\ b.type = a.type /\ b.tail_number = a.tail_number}

\* C15: after a successful ImportFlightsFromDatabase every source flight has
\* its own new flight id; each aircraft of a source flight is one canonical
\* aircraft under that new id, the new flight has no other aircraft, and
\* the position, attitude and engine series of the canonical aircraft hold
\* the rows of the source aircraft, one for one, with their timestamps.
\* Logbook is the one source that passes the verification of its tables.
C15_ImportKeepsOwnership ==
    (last.op = "import" /\ last.res = "ok") =>
        /\ {last.ids[i].SourceID : i \in 1..Len(last.ids)}
              = {fl.id : fl \in Logbook.flight}
        /\ \A i, j \in 1..Len(last.ids) :
              last.ids[i].ID = last.ids[j].ID => i = j
        /\ \A i \in 1..Len(last.ids) :
              /\ \E fl \in flight : fl.id = last.ids[i].ID
              /\ Cardinality(AircraftOf(Store, last.ids[i].ID))
                   = Cardinality(AircraftOf(Logbook, last.ids[i].SourceID))
              /\ \A a \in AircraftOf(Logbook, last.ids[i].SourceID) :
                   /\ Cardinality(ImportOf(a, last.ids[i].ID)) = 1
                   /\ \A b \in ImportOf(a, last.ids[i].ID), table \in Telemetry :
                        /\ Unattached(Series(Store, table, b.id))
                             = Unattached(Series(Logbook, table, a.id))
                        /\ Cardinality(Series(Store, table, b.id))
                             = Cardinality(Series(Logbook, table, a.id))

\* An import that gave the flights and aircraft ids other than their own.
C15_Witness ==
    /\ last.op = "import" /\ last.res = "ok"
    /\ Len(last.ids) = 2
    /\ \A i \in 1..Len(last.ids) : last.ids[i].ID # last.ids[i].SourceID
    /\ Cardinality(aircraft) >= 3 /\ Cardinality(position) >= 5

\* C16: an import from a source that lacks one of the tables flight,
\* aircraft, position, attitude, engine fails before a transaction is begun
\* and writes nothing, and its error names the first of these tables, in
\* this order, that the source lacks.
C16_MissingTableRejected ==
    [][(last'.op = "import" /\ ~(RequiredTables \subseteq last'.source)) =>
        /\ last'.res = "invalid_source"
        /\ ~last'.tx /\ ~last'.wrote
        /\ StoreAfter = Store
        /\ \E i \in 1..Len(requiredTables) :
              /\ last'.detail = requiredTables[i]
              /\ requiredTables[i] \notin last'.source
              /\ \A j \in 1..(i - 1) : requiredTables[j] \in last'.source]_vars

\* An import from a source without aircraft and engine table, rejected for
\* its aircraft table, into a store that holds flights.
C16_Witness ==
    /\ last.op = "import" /\ last.res = "invalid_source"
    /\ last.detail = "aircraft" /\ "engine" \notin last.source
    /\ flight # {} /\ position # {}

\* The expected names that occur in some column name of the row.
NamesFound(record) ==
    {expected \in expectedHeaders :
        \E i \in 1..Len(record) : Contains(ToLower(record[i]), ToLower(expected))}

\* C17: containsFlightDataHeaders accepts a row exactly when at least 3 of
\* the names Time, Altitude, Latitude, Longitude each occur, as a
\* case-insensitive substring, in some column name of the row.
C17_HeaderIffThreeNames ==
    last.op = "containsFlightDataHeaders" =>
        (last.res = "header" <=> Cardinality(NamesFound(last.source)) >= 3)

\* The rows below the header that the parser accepts: those with as many
\* fields as the header.
AcceptedRows(records) ==
    {i \in (headerRowIndex(records, SkipRows) + 1)..Len(records) :
        Len(records[i]) = Len(records[headerRowIndex(records, SkipRows)])}

\* The upload is a CSV file with a header that the parser recognizes and
\* at least one row of the right field count, and nothing but the rows of
\* the file stands in the way of its import.
PartialRowImport ==
    /\ last'.op = "upload"
    /\ ToLower(Ext(last'.source.upload.Filename)) = ExtCSV
    /\ ~last'.injected
    /\ Len(last'.source.upload.records) >= 3
    /\ headerRowIndex(last'.source.upload.records, SkipRows) # 0
    /\ AcceptedRows(last'.source.upload.records) # {}

\* The step added one flight with one aircraft and n rows of each kind.
CommittedOneFlight(n) ==
    \E fl \in flight' \ flight :
      /\ flight' = flight \cup {fl}
      /\ \E ac \in aircraft' \ aircraft :
           /\ aircraft' = aircraft \cup {ac}
           /\ ac.flight_id = fl.id
           /\ \A table \in Telemetry :
                Cardinality(Series(StoreAfter, table, ac.id)) = n

\* C18: a CSV file with a recognized header and at least one row of the
\* right field count is imported whatever its rows hold: the import commits
\* one flight with one aircraft and one position, attitude and engine row
\* for every row of the right field count.
C18_PartialRowsNeverAbort ==
    [][PartialRowImport =>
        /\ last'.res = "ok"
        /\ CommittedOneFlight(
               Cardinality(AcceptedRows(last'.source.upload.records)))]_vars

\* C19: when handleDatabaseUpload returns, the temporary file of the
\* upload does not exist.
C19_TempFileDeleted ==
    [][last'.op = "upload" => last'.source.tempPath \notin tempDir']_vars

\* The request reached an operation on a flight that does not exist: it
\* passed the validation of its handler and no statement was failed.
OnMissingFlight ==
    /\ last'.op \in {"duplicate", "trim", "delete", "DeleteFlight"}
    /\ last'.flightId # 0
    /\ \A fl \in flight : fl.id # last'.flightId
    /\ last'.res \notin {"bad_request", "bad_range", "range_too_small", "title_exists"}
    /\ ~last'.injected

\* The request reached deleteMarker with the id of no marker.
OnMissingMarker ==
    /\ last'.op = "delete_marker"
    /\ last'.markerId # NoID
    /\ \A m \in markers : m.id # last'.markerId
    /\ ~last'.injected

\* C20: deleteMarker, duplicateFlight, trimFlight and deleteFlight on an id
\* that does not exist answer not found, an outcome that is neither success
\* nor the outcome of another failure, and leave the store as it was.
C20_MissingIdReportedNotFound ==
    [][(OnMissingFlight \/ OnMissingMarker) =>
        /\ last'.res = "not_found"
        /\ StoreAfter = Store]_vars

\* The listener's step sends the datagram to the target.
Forwards == gps.listener.pc = "forward" /\ gps'.sent.forwarded

\* C24: while the sending state is false no datagram is forwarded to the
\* target, and after a toggle the sending state is the one that the last
\* toggle chose.
C24_ManualToggleGoverns ==
    [][/\ Forwards => gps.isSendingToTarget
       /\ gps'.manual = "off" => ~gps'.isSendingToTarget
       /\ gps'.manual = "on" => gps'.isSendingToTarget]_vars

\* C25: every read and every write of maxDistanceNM, targetIP,
\* isSendingToTarget and currentGPS is made by a goroutine that holds the
\* mutex of the variable.
C25_SharedStateGuarded == gps.access.guarded

\* The aircraft of the flight that was read which have rows in the table.
AircraftWith(table) ==
    {ac \in AircraftOf(Store, last.flightId) : Series(Store, table, ac.id) # {}}

\* The series of the answer.
SeriesOf(m) == {m[label] : label \in DOMAIN m}

\* C22: the flight data read for a flight holds one position series for
\* every aircraft of the flight that has a position row, and one engine
\* series for every aircraft that has an engine row: the series of each such
\* aircraft is in the answer, and the answer has as many series as there are
\* such aircraft, also when two aircraft share type and tail number.
C22_OneSeriesPerAircraft ==
    (last.op = "flight_data" /\ last.res = "ok") =>
        /\ \A ac \in AircraftWith("position") :
              Points(Series(Store, "position", ac.id))
                  \in SeriesOf(last.flightData.PositionData)
        /\ Cardinality(DOMAIN last.flightData.PositionData)
              = Cardinality(AircraftWith("position"))
        /\ \A ac \in AircraftWith("engine") :
              Points(Series(Store, "engine", ac.id))
                  \in SeriesOf(last.flightData.EngineData)
        /\ Cardinality(DOMAIN last.flightData.EngineData)
              = Cardinality(AircraftWith("engine"))

\* The indices of the points of a series whose field is admitted.
AdmittedPoints(series, field) ==
    {i \in 1..Len(series) :
        IF field = "Airspeed" THEN series[i][field] > 0 ELSE series[i][field] # 0}

\* The k-th smallest of the values of the admitted points.
KthSmallest(series, field, k) ==
    CHOOSE v \in {series[i][field] : i \in AdmittedPoints(series, field)} :
        /\ Cardinality({i \in AdmittedPoints(series, field) : series[i][field] < v}) < k
        /\ Cardinality({i \in AdmittedPoints(series, field) : series[i][field] <= v}) >= k

MedianOfAdmitted(series, field) ==
    IF Cardinality(AdmittedPoints(series, field)) % 2 = 1
    THEN KthSmallest(series, field, (Cardinality(AdmittedPoints(series, field)) + 1) \div 2)
    ELSE (KthSmallest(series, field, Cardinality(AdmittedPoints(series, field)) \div 2)
          + KthSmallest(series, field,
                        Cardinality(AdmittedPoints(series, field)) \div 2 + 1)) \div 2

\* The statistics stats are those of the admitted values of the field.
OverAdmitted(stats, series, field) ==
    IF AdmittedPoints(series, field) = {} THEN stats = <<>>
    ELSE /\ Len(stats) = 1
         /\ stats[1].Count = Cardinality(AdmittedPoints(series, field))
         /\ stats[1].Min = Min({series[i][field] : i \in AdmittedPoints(series, field)})
         /\ stats[1].Max = Max({series[i][field] : i \in AdmittedPoints(series, field)})
         /\ stats[1].Median = MedianOfAdmitted(series, field)

\* C23: the statistics of every series are computed over exactly the
\* admitted points: the airspeed count is the number of points with
\* airspeed > 0, each altitude count (indicated, MSL, pressure) is the number
\* of points whose value is not 0, negative values included, and min, max
\* and median are those of the admitted values.
C23_StatisticsOverAdmitted ==
    last.op = "statistics" =>
        \A label \in DOMAIN last.flightData.PositionData :
            Len(last.flightData.PositionData[label]) > 0 =>
                /\ label \in DOMAIN last.statistics
                /\ OverAdmitted(last.statistics[label].AirspeedStats,
                                last.flightData.PositionData[label], "Airspeed")
                /\ OverAdmitted(last.statistics[label].IndicatedAltitudeStats,
                                last.flightData.PositionData[label], "IndicatedAltitude")
                /\ OverAdmitted(last.statistics[label].AltitudeStats,
                                last.flightData.PositionData[label], "Altitude")
                /\ OverAdmitted(last.statistics[label].PressureAltitudeStats,
                                last.flightData.PositionData[label], "PressureAltitude")

\* Statistics of a series with altitudes 100, 0 and -50: two values count,
\* from -50 to 100, with median 25.
C23_Witness ==
    /\ last.op = "statistics"
    /\ Len(last.flightData.PositionData["C172"]) = 3
    /\ {last.flightData.PositionData["C172"][i].Altitude : i \in 1..3} = {200, 0, -100}
    /\ last.statistics["C172"].AltitudeStats
          = <<[Count |-> 2, Min |-> -100, Max |-> 200, Range |-> 300, Median |-> 50]>>

\* C26: ownership is tree-shaped in every state the requests lead to: the
\* flight_id of every aircraft names a flight, the aircraft_id of every
\* position, attitude and engine row names an aircraft, and the flight_id of
\* every marker names a flight.
C26_OwnershipTree ==
    /\ \A a \in aircraft : \E fl \in flight : fl.id = a.flight_id
    /\ \A table \in Telemetry : \A r \in Store[table] :
          \E a \in aircraft : a.id = r.aircraft_id
    /\ \A m \in markers : \E fl \in flight : fl.id = m.flight_id

\* A trim request that is served in this step for an existing flight, with
\* a title no flight has and a range of at least a second, and that no
\* statement failure strikes.
ValidTrim ==
    /\ last'.op = "trim" /\ served' = served + 1
    /\ ~last'.injected
    /\ \E fl \in flight : fl.id = last'.flightId
    /\ last'.title # "" /\ ~flightTitleExists(Store, last'.title)
    /\ last'.end - last'.start >= Resolution

\* An aircraft of the flight to trim that has no row in one of the tables.
EmptySeriesIn(flightID) ==
    \E a \in AircraftOf(Store, flightID), table \in Telemetry :
        Series(Store, table, a.id) = {}

\* C28: a valid trim of an existing flight succeeds also when one series
\* (position, attitude or engine) of one of its aircraft has no rows, and
\* the copy of that aircraft then has no rows in that table either.
C28_TrimWithEmptySeries ==
    [][(ValidTrim /\ EmptySeriesIn(last'.flightId)) =>
          /\ last'.res = "ok"
          /\ \A a \in AircraftOf(Store, last'.flightId), table \in Telemetry :
                Series(Store, table, a.id) = {} =>
                    \A b \in AircraftOf(StoreAfter, last'.ids[1].ID) :
                        b.seq_nr = a.seq_nr => Series(StoreAfter, table, b.id) = {}]_vars

\* C29: a duplicate keeps the kind of every marker it copies: for every
\* marker of the source flight the new flight has a marker at the same time
\* offset with the same label and the same kind.
C29_DuplicateKeepsMarkerKind ==
    [][(last'.op = "duplicate" /\ last'.res = "ok" /\ served' = served + 1) =>
          \A m \in MarkersOf(Store, last'.flightId) :
              \E c \in MarkersOf(StoreAfter, last'.ids[1].ID) :
                  /\ c.time_seconds = m.time_seconds
                  /\ c.label = m.label
                  /\ c.type = m.type]_vars

\* C21: the aircraft that a duplicateFlight or trimFlight call copies are
\* the aircraft of the source flight in the store state from which the call
\* read the flight row, whatever other import, delete, duplicate and trim
\* calls run at the same time.
C21_AircraftOfSnapshot ==
    \A c \in Callers :
        At(c, {"duplicate", "trim"}, "commit") =>
            calls[c].aircraft =
                getAircraftByFlightIDFromMainDB(calls[c].snapshot, calls[c].flightID)

\* A duplicate or trim that has read the aircraft of its flight while a
\* delete of the flight or an import is inside its transaction.
C21_Witness ==
    \E c, d \in Callers :
        /\ At(c, {"duplicate", "trim"}, "commit")
        /\ calls[c].aircraft # <<>>
        /\ calls[d].op \in {"delete", "upload"}
        /\ d \in locks.shared

\* A duplicate or trim that succeeded and has not answered yet.
Succeeded(c) ==
    /\ At(c, {"duplicate", "trim"}, "return")
    /\ calls[c].r.res = "ok"

\* C27: of two concurrent duplicate or trim requests that name the same new
\* title, both issued when no flight has it, at most one succeeds.
C27_OneSucceedsPerTitle ==
    \A c, d \in Callers :
        (c # d /\ Succeeded(c) /\ Succeeded(d)) => calls[c].title # calls[d].title

\* Uploads whose temporary file is saved and not yet removed.
Saved(c) == calls[c].op = "upload" /\ calls[c].pc \in {"import", "commit", "remove"}

\* C30: two uploads in flight at the same time never have the same
\* temporary path, also when they carry the same filename and arrive in
\* the same second, so neither overwrites or removes the file of the other.
C30_TempPathsDiffer ==
    \A c, d \in Callers :
        (c # d /\ Saved(c) /\ Saved(d)) => calls[c].tempPath # calls[d].tempPath

====
